---- MODULE Spec2Model ----
(***************************************************************************)
(* A model of worktree-tools-mcp: the create and cleanup operations of the *)
(* worktree lifecycle (tools/create-worktree, tools/cleanup-worktree) over *)
(* the git helpers of utils/git.ts, a filesystem and a git repository.     *)
(*                                                                         *)
(* A string of the program is a sequence of symbols.  A symbol is one      *)
(* character ("a", " ", "/", "!"), except that a fixed chunk of text no    *)
(* operation looks inside is kept as one symbol ("home", "USERNAME=",      *)
(* ".git", and the literal "-worktrees" the pruning walk searches for).    *)
(* A path is absolute and normalised: the sequence of its components, each *)
(* a string; <<>> is the filesystem root.                                  *)
(***************************************************************************)
EXTENDS Naturals, Integers, Sequences, FiniteSets, TLC

\* ------------------------------------------------------------------ bounds

\* How many tool calls one behaviour makes.
MaxOps == 2
\* How many times another process writes into the filesystem during a behaviour.
MaxEnvOps == 1

\* The longest string of the normalisation runs that try every string.
MaxLen == 3

\* The most linked worktrees a listed repository has.
MaxWorktrees == 3

\* The most commits a worktree is ahead of or behind its upstream.
MaxCommits == 3

\* ----------------------------------------------------------------- strings

\* The literal the pruning walk looks for in a path.
WT == "-worktrees"

\* The value of a variable of type string | undefined that holds no string.
Undefined == <<"undefined">>

\* What trim and the class \s take for whitespace.
Whitespace == {" ", "\t", "\n"}

\* String.prototype.trim
RECURSIVE TrimStart(_)
TrimStart(s) ==
  IF s # <<>> /\ Head(s) \in Whitespace THEN TrimStart(Tail(s)) ELSE s

RECURSIVE TrimEnd(_)
TrimEnd(s) ==
  IF s # <<>> /\ s[Len(s)] \in Whitespace
    THEN TrimEnd(SubSeq(s, 1, Len(s) - 1))
    ELSE s

trim(s) == TrimEnd(TrimStart(s))

\* The letters toLowerCase changes and what it makes of them.
UpperCase ==
  <<"A", "B", "C", "D", "E", "F", "G", "H", "I", "J", "K", "L", "M",
    "N", "O", "P", "Q", "R", "S", "T", "U", "V", "W", "X", "Y", "Z">>

LowerCase ==
  <<"a", "b", "c", "d", "e", "f", "g", "h", "i", "j", "k", "l", "m",
    "n", "o", "p", "q", "r", "s", "t", "u", "v", "w", "x", "y", "z">>

DigitSyms == <<"0", "1", "2", "3", "4", "5", "6", "7", "8", "9">>

\* String.prototype.toLowerCase, symbol by symbol.
LowerSym(c) ==
  IF \E i \in 1..Len(UpperCase) : UpperCase[i] = c
    THEN LowerCase[CHOOSE i \in 1..Len(UpperCase) : UpperCase[i] = c]
    ELSE IF c = "Acme" THEN "acme" ELSE c

toLowerCase(s) == [i \in 1..Len(s) |-> LowerSym(s[i])]

\* .replace(/\s+/g, '-'): every maximal run of whitespace becomes one hyphen.
RECURSIVE ReplaceWhitespaceRuns(_)
ReplaceWhitespaceRuns(s) ==
  IF s = <<>> THEN <<>>
  ELSE IF Head(s) \in Whitespace
    THEN <<"-">> \o ReplaceWhitespaceRuns(TrimStart(s))
    ELSE <<Head(s)>> \o ReplaceWhitespaceRuns(Tail(s))

\* The symbols of the class [a-z0-9-].
SlugSyms ==
  {LowerCase[i] : i \in 1..Len(LowerCase)}
    \cup {DigitSyms[i] : i \in 1..Len(DigitSyms)} \cup {"-"}

\* .replace(/[^a-z0-9-]/g, ''): every symbol outside [a-z0-9-] is dropped.
StripNonSlug(s) == SelectSeq(s, LAMBDA c : c \in SlugSyms)

\* A normalisation that strips before it replaces the whitespace runs.
normalizeBranchName_StripFirst(branchName) ==
  ReplaceWhitespaceRuns(StripNonSlug(toLowerCase(branchName)))

\* createWorktreeTool's normalisation of the description.
normalizeBranchName(branchName) ==
  StripNonSlug(ReplaceWhitespaceRuns(toLowerCase(branchName)))

\* ------------------------------------------------------------------- paths

Root == <<>>

\* The segments of a string between its "/" separators (empty ones included).
RECURSIVE Segments(_)
Segments(s) ==
  IF s = <<>> THEN << <<>> >>
  ELSE LET rest == Segments(Tail(s)) IN
       IF Head(s) = "/"
         THEN << <<>> >> \o rest
         ELSE << <<Head(s)>> \o rest[1] >> \o Tail(rest)

\* path.normalize on an absolute path: "" and "." segments are dropped and
\* ".." removes the component before it (the root is its own parent).
RECURSIVE Resolve(_, _)
Resolve(acc, segs) ==
  IF segs = <<>> THEN acc
  ELSE LET s == Head(segs) IN
       Resolve(IF s = <<>> \/ s = <<".">> THEN acc
               ELSE IF s = <<"..">>
                 THEN (IF acc = <<>> THEN <<>> ELSE SubSeq(acc, 1, Len(acc) - 1))
                 ELSE Append(acc, s),
               Tail(segs))

RECURSIVE AllSegments(_)
AllSegments(parts) ==
  IF parts = <<>> THEN <<>>
  ELSE Segments(Head(parts)) \o AllSegments(Tail(parts))

\* path.join(base, ...parts), base an absolute normalised path.
pathJoin(base, parts) == Resolve(base, AllSegments(parts))

\* path.dirname of an absolute normalised path.
dirname(p) == IF p = Root THEN Root ELSE SubSeq(p, 1, Len(p) - 1)

\* path.basename
basename(p) == IF p = Root THEN <<>> ELSE p[Len(p)]

IsPrefix(a, b) == Len(a) <= Len(b) /\ SubSeq(b, 1, Len(a)) = a

Prefixes(p) == {SubSeq(p, 1, n) : n \in 0..Len(p)}

\* currentDir.includes('-worktrees'): "-worktrees" holds no "/", so it occurs in
\* the path string exactly when it occurs in one of the components.
includesWorktrees(p) ==
  \E i \in 1..Len(p) : \E j \in 1..Len(p[i]) : p[i][j] = WT

\* ------------------------------------------------------------------- state

VARIABLES
  dirs,        \* the directories that exist (paths)
  files,       \* the files that exist (paths)
  worktrees,   \* git's worktree list, in enumeration order: [path, branch, base]
  branches,    \* the local branches (strings)
  remoteRefs,  \* the trunk refs of the remote that exist
  home,        \* process.env.HOME as a path, or NoHome
  pc,          \* where the tool call in flight stands
  cl,          \* cleanupWorktreeTool's arguments and locals
  cr,          \* createWorktreeTool's arguments and locals
  result,      \* what the last finished tool call returned or threw
  io,          \* the external calls the tool call in flight has made, in order
  removedLog,  \* each rmdir of the pruning walk in flight: the directory and its entries then
  pre,         \* the repository and filesystem when the tool call in flight started
  opsDone,     \* tool calls started
  envOps,      \* writes by other processes
  sib,         \* a second tool call in flight at the same time, on a sibling worktree
  wtState,     \* what git reports in each worktree: changes, upstream, commits
  ls,          \* listWorktreesTool's locals
  st,          \* worktreeStatusTool's arguments and locals
  prc,         \* createPRTool's arguments and locals
  ident,       \* a run of detectUsername: what it reads and what it returns
  nm           \* a naming computation: its inputs and what it yields

\* The repository and the disk.
repoVars == <<dirs, files, worktrees, branches, remoteRefs, home>>

\* The state of the create and cleanup tools.
lifecycleVars == <<cl, cr, removedLog, pre, opsDone, envOps, sib>>

\* The state of the other operations.
queryVars == <<wtState, ls, st, prc, ident, nm>>

vars == <<dirs, files, worktrees, branches, remoteRefs, home, pc, cl, cr,
          result, io, removedLog, pre, opsDone, envOps, sib,
          wtState, ls, st, prc, ident, nm>>

\* ------------------------------------------------------------ the universe

NoHome == <<Undefined>>

HomeU == << <<"home">>, <<"u">> >>
Lab == << <<"lab", WT>> >>

\* Where the main checkout may be.
MainRoots == {HomeU \o << <<"acme">> >>, Lab \o << <<"acme">> >>}

\* What process.env.HOME may be.
Homes == {HomeU, Lab \o << <<"u">> >>, NoHome}

\* Worktrees added by hand with git worktree add, outside the tool's layout.
ManualWorktrees ==
  {HomeU \o << <<"old", WT>>, <<"x">>, <<"wt">> >>, Lab \o << <<"u">>, <<"wt">> >>}

ManualBranch(p) == <<"wip", "-">> \o p[Len(p) - 1]

TrunkRefs == {"origin/main", "origin/master"}

\* The .env* files at the top of the main checkout.
EnvFileNames == << <<".env">>, <<".env", ".local">> >>

\* The lock files a checkout may bring.
LockFileSets == {{}, {<<"package-lock.json">>, <<"yarn.lock">>}}

\* The ticket and description arguments tried.
Tickets == {<<>>, <<" ">>, <<"T", "1">>}
Descriptions == {<<"\t", " ">>, <<"F", " ", " ", "x", "!">>}

\* The contents of .worktree-config tried (Undefined: no such file), the output
\* of gh api user (Undefined: the command fails), git's user.name (Undefined:
\* unset) and origin's fetch URL (Undefined: no origin).
ConfigFiles == {Undefined, <<"USERNAME=", "a", "l", "\n">>}
GhLogins == {Undefined, <<"b", "-", "o", "\n">>}
GitNames == {Undefined, <<"B", " ", "O", "!">>}
OriginUrls == {Undefined, <<"git@host:org", "/", "Acme", ".git">>}

\* ----------------------------------------------------------- the filesystem

\* The entries of directory d: what fs.readdir(d) lists.
Children(d) ==
  {p \in dirs \cup files : Len(p) = Len(d) + 1 /\ IsPrefix(d, p)}

\* A removal that takes the directory with whatever it holds, as a recursive
\* fs.rm would.
rmdirAllowed_Recursive(d) == d \in dirs /\ d # Root

\* fs.rmdir(d) succeeds only on an existing, empty directory (else ENOENT,
\* ENOTEMPTY).
rmdirAllowed(d) == d \in dirs /\ d # Root /\ Children(d) = {}

\* What is left of a set of paths when the tree under p is removed.
WithoutTree(paths, p) == {q \in paths : ~IsPrefix(p, q)}

\* ------------------------------------------------------------ the repository

WorktreePaths == {worktrees[i].path : i \in 1..Len(worktrees)}

\* getMainRepoRoot: the first "worktree " line of git worktree list --porcelain.
getMainRepoRoot == worktrees[1].path

IsLinkedWorktree(p) ==
  \E i \in 2..Len(worktrees) : worktrees[i].path = p

BranchAt(p) ==
  (CHOOSE w \in {worktrees[i] : i \in 1..Len(worktrees)} : w.path = p).branch

CheckedOut == {worktrees[i].branch : i \in 1..Len(worktrees)}

\* getDefaultBranch: origin/main when that ref exists, else origin/master, else
\* a throw.
getDefaultBranch ==
  IF "origin/main" \in remoteRefs THEN "origin/main"
  ELSE IF "origin/master" \in remoteRefs THEN "origin/master"
  ELSE "NoTrunkFound"

\* git check-ref-format on a branch name: no empty component, no "..", no
\* whitespace, no component starting with a dot.
ValidRefName(b) ==
  /\ \A i \in 1..Len(b) : b[i] \notin Whitespace \cup {".."}
  /\ \A i \in 1..Len(Segments(b)) :
       Segments(b)[i] # <<>> /\ Segments(b)[i][1] # "."

\* Two refs cannot coexist when one is a directory prefix of the other.
RefConflict(a, b) ==
  IsPrefix(Segments(a), Segments(b)) \/ IsPrefix(Segments(b), Segments(a))

\* ------------------------------------------------------------------- Init

\* One disk per behaviour: the home directory and the hand-made worktrees are
\* under the top-level directory that holds the main checkout.
SameTree(mainRoot, p) == p = NoHome \/ p[1] = mainRoot[1]

NoCleanup ==
  [active |-> FALSE, worktreePath |-> Root, shouldDeleteBranch |-> FALSE,
   mainRepoPath |-> Root, branchName |-> Undefined, branchDeleted |-> FALSE,
   currentDir |-> Root, directoriesRemoved |-> <<>>,
   removeThrew |-> FALSE, deleteThrew |-> FALSE, walked |-> FALSE]

NoCreate ==
  [active |-> FALSE, ticket |-> <<>>, branchName |-> <<>>, mainRepoRoot |-> Root,
   username |-> <<>>, usernameSource |-> "none", repoName |-> <<>>,
   normalizedBranchName |-> <<>>, fullBranchName |-> <<>>, worktreePath |-> Root,
   baseBranch |-> "none", dependenciesInstalled |-> FALSE, packageManager |-> "null",
   envFilesCopied |-> 0, fetchThrew |-> FALSE, addThrew |-> FALSE,
   installThrew |-> FALSE, copyThrew |-> FALSE]

\* No second call runs.
NoSibling == [active |-> FALSE]

NoResult == [op |-> "none", ok |-> FALSE, error |-> "none"]

NoSnapshot == [dirs |-> {}, worktrees |-> <<>>, branches |-> {}]

Snapshot == [dirs |-> dirs, worktrees |-> worktrees, branches |-> branches]

\* The worktree list of a repository with hand-made worktrees `manual`.
InitialWorktrees(mainRoot, manual) ==
  LET manualSeq == CHOOSE q \in [1..Cardinality(manual) -> manual] :
                     \A i, j \in 1..Cardinality(manual) : i # j => q[i] # q[j]
  IN <<[path |-> mainRoot, branch |-> <<"master">>, base |-> "none"]>>
     \o [i \in 1..Cardinality(manual) |->
          [path |-> manualSeq[i], branch |-> ManualBranch(manualSeq[i]),
           base |-> "none"]]

\* No other operation runs.
NoList == [active |-> FALSE]
NoStatus == [active |-> FALSE]
NoPR == [active |-> FALSE]
NoIdentity == [active |-> FALSE]
NoNaming == [active |-> FALSE]

NoQueries ==
  /\ wtState = <<>>
  /\ ls = NoList
  /\ st = NoStatus
  /\ prc = NoPR
  /\ ident = NoIdentity
  /\ nm = NoNaming

Init ==
  \E mainRoot \in MainRoots, h \in Homes, manual \in SUBSET ManualWorktrees,
     refs \in (SUBSET TrunkRefs) \ {{}} :
    /\ SameTree(mainRoot, h)
    /\ \A m \in manual : SameTree(mainRoot, m)
    /\ dirs = UNION {Prefixes(p) :
                      p \in {mainRoot} \cup manual \cup (IF h = NoHome THEN {} ELSE {h})}
    /\ files = {Append(mainRoot, EnvFileNames[i]) : i \in 1..Len(EnvFileNames)}
    /\ worktrees = InitialWorktrees(mainRoot, manual)
    /\ branches = {<<"master">>} \cup {ManualBranch(p) : p \in manual}
    /\ remoteRefs = refs
    /\ home = h
    /\ pc = "idle"
    /\ cl = NoCleanup
    /\ cr = NoCreate
    /\ result = NoResult
    /\ io = <<>>
    /\ removedLog = <<>>
    /\ pre = NoSnapshot
    /\ opsDone = 0
    /\ envOps = 0
    /\ sib = NoSibling
    /\ NoQueries

\* A tool call starts: one request at a time, each with fresh locals.
Begin ==
  /\ pc = "idle"
  /\ opsDone < MaxOps
  /\ opsDone' = opsDone + 1
  /\ pre' = Snapshot
  /\ removedLog' = <<>>

\* ---------------------------------------------------------------- identity

\* Where /USERNAME=(.+)/ can match: "USERNAME=" followed by a symbol that is no
\* line break.
UsernameMatchStarts(config) ==
  {i \in 1..(Len(config) - 1) : config[i] = "USERNAME=" /\ config[i + 1] # "\n"}

\* The symbols from position i to the end of the line: what (.+) captures.
RECURSIVE RestOfLine(_, _)
RestOfLine(s, i) ==
  IF i > Len(s) \/ s[i] = "\n" THEN <<>> ELSE <<s[i]>> \o RestOfLine(s, i + 1)

\* match[1] of config.match(/USERNAME=(.+)/): the leftmost match.
UsernameCapture(config) ==
  LET starts == UsernameMatchStarts(config)
      first == CHOOSE i \in starts : \A j \in starts : i <= j
  IN RestOfLine(config, first + 1)

\* The conversion of a display name: the same three steps as the description's.
normalizeUsername(name) ==
  StripNonSlug(ReplaceWhitespaceRuns(toLowerCase(name)))

\* A resolver that asks the hosted login before it reads the override file.
detectUsername_HostedFirst(config, ghLogin, gitName) ==
  IF ghLogin # Undefined /\ trim(ghLogin) # <<>>
    THEN [ok |-> TRUE, username |-> trim(ghLogin), source |-> "github_cli"]
  ELSE IF config # Undefined /\ UsernameMatchStarts(config) # {}
    THEN [ok |-> TRUE, username |-> trim(UsernameCapture(config)),
          source |-> "manual_config"]
  ELSE IF gitName # Undefined /\ gitName # <<>> /\ normalizeUsername(gitName) # <<>>
    THEN [ok |-> TRUE, username |-> normalizeUsername(gitName), source |-> "git_config"]
  ELSE [ok |-> FALSE, username |-> <<>>, source |-> "none"]

\* detectUsername(configPath): the override file, then gh api user, then git's
\* user.name; the first strategy that yields a value wins, and a throw when none
\* does.
detectUsername(config, ghLogin, gitName) ==
  IF config # Undefined /\ UsernameMatchStarts(config) # {}
    THEN [ok |-> TRUE, username |-> trim(UsernameCapture(config)),
          source |-> "manual_config"]
  ELSE IF ghLogin # Undefined /\ trim(ghLogin) # <<>>
    THEN [ok |-> TRUE, username |-> trim(ghLogin), source |-> "github_cli"]
  ELSE IF gitName # Undefined /\ gitName # <<>> /\ normalizeUsername(gitName) # <<>>
    THEN [ok |-> TRUE, username |-> normalizeUsername(gitName), source |-> "git_config"]
  ELSE [ok |-> FALSE, username |-> <<>>, source |-> "none"]

\* getRepoName: the last segment of origin's URL without a trailing ".git",
\* lowercased; without a usable URL, the main checkout's directory name.
getRepoName(originUrl, repoPath) ==
  LET segs == Segments(originUrl)
      last == segs[Len(segs)]
      stem == IF Len(last) > 1 /\ last[Len(last)] = ".git"
                THEN SubSeq(last, 1, Len(last) - 1)
                ELSE last
  IN IF originUrl # Undefined /\ originUrl # <<>> /\ Len(segs) > 1 /\ last # <<>>
       THEN toLowerCase(stem)
       ELSE toLowerCase(basename(repoPath))

\* ----------------------------------------------------------------- create

\* The baseBranch createWorktreeTool passes to createWorktree.
toolBaseBranch == "origin/master"

\* A validation that forgets to trim.
create_Validate_NoTrim(ticket, branchName) ==
  /\ Begin
  /\ cl' = NoCleanup
  /\ io' = <<>>
  /\ cr' = [NoCreate EXCEPT !.active = TRUE, !.ticket = ticket,
                            !.branchName = branchName]
  /\ IF ticket = <<>> \/ branchName = <<>>
       THEN /\ pc' = "failed"
            /\ result' = [op |-> "create", ok |-> FALSE, error |-> "InvalidArgument"]
       ELSE /\ pc' = "cr_plan"
            /\ result' = [op |-> "create", ok |-> FALSE, error |-> "pending"]
  /\ UNCHANGED <<dirs, files, worktrees, branches, remoteRefs, home, envOps>>
  /\ UNCHANGED <<sib, queryVars>>

\* createWorktreeTool's validation: a ticket or description that is empty after
\* trimming throws before anything else is done.
create_Validate(ticket, branchName) ==
  /\ Begin
  /\ cl' = NoCleanup
  /\ io' = <<>>
  /\ cr' = [NoCreate EXCEPT !.active = TRUE, !.ticket = ticket,
                            !.branchName = branchName]
  /\ IF ticket = <<>> \/ trim(ticket) = <<>>
          \/ branchName = <<>> \/ trim(branchName) = <<>>
       THEN /\ pc' = "failed"
            /\ result' = [op |-> "create", ok |-> FALSE, error |-> "InvalidArgument"]
       ELSE /\ pc' = "cr_plan"
            /\ result' = [op |-> "create", ok |-> FALSE, error |-> "pending"]
  /\ UNCHANGED <<dirs, files, worktrees, branches, remoteRefs, home, envOps>>
  /\ UNCHANGED <<sib, queryVars>>

\* The container of the tool's worktrees: <mainRepoRoot>/../<repoName>-worktrees.
worktreesDirOf(mainRepoRoot, repoName) ==
  pathJoin(mainRepoRoot, << <<"..">>, repoName \o <<WT>> >>)

\* fullBranchName: `${username}/${ticket}/${normalizedBranchName}`
fullBranchNameOf(username, ticket, normalizedBranchName) ==
  username \o <<"/">> \o ticket \o <<"/">> \o normalizedBranchName

\* The test both arguments of create must pass: !x || !x.trim() is false.
validArgument(x) == x # <<>> /\ trim(x) # <<>>

\* A worktree path with the ticket directory above the user's.
worktreePathOf_TicketFirst(worktreesDir, username, ticket, normalizedBranchName) ==
  pathJoin(worktreesDir, <<ticket, username, normalizedBranchName>>)

\* worktreePath: path.join(worktreesDir, username, ticket, normalizedBranchName)
worktreePathOf(worktreesDir, username, ticket, normalizedBranchName) ==
  pathJoin(worktreesDir, <<username, ticket, normalizedBranchName>>)

\* getMainRepoRoot, detectUsername and getRepoName, then the branch name and the
\* worktree path computed from them.
create_Plan(inRepo, config, ghLogin, gitName, originUrl) ==
  /\ pc = "cr_plan"
  /\ LET id == detectUsername(config, ghLogin, gitName)
         mainRepoRoot == getMainRepoRoot
         repoName == getRepoName(originUrl, mainRepoRoot)
         normalizedBranchName == normalizeBranchName(cr.branchName)
         fullBranchName ==
           fullBranchNameOf(id.username, cr.ticket, normalizedBranchName)
         worktreesDir == worktreesDirOf(mainRepoRoot, repoName)
         worktreePath ==
           worktreePathOf(worktreesDir, id.username, cr.ticket, normalizedBranchName)
     IN IF ~inRepo
          THEN /\ pc' = "failed"
               /\ io' = Append(io, "worktreeList")
               /\ result' = [op |-> "create", ok |-> FALSE, error |-> "NotARepository"]
               /\ UNCHANGED cr
          ELSE IF ~id.ok
            THEN /\ pc' = "failed"
                 /\ io' = io \o <<"worktreeList", "identity">>
                 /\ result' = [op |-> "create", ok |-> FALSE,
                               error |-> "IdentityUnresolved"]
                 /\ cr' = [cr EXCEPT !.mainRepoRoot = mainRepoRoot]
            ELSE /\ pc' = "cr_fetch"
                 /\ io' = io \o <<"worktreeList", "identity", "remotes">>
                 /\ cr' = [cr EXCEPT
                             !.mainRepoRoot = mainRepoRoot,
                             !.username = id.username,
                             !.usernameSource = id.source,
                             !.repoName = repoName,
                             !.normalizedBranchName = normalizedBranchName,
                             !.fullBranchName = fullBranchName,
                             !.worktreePath = worktreePath,
                             !.baseBranch = toolBaseBranch]
                 /\ UNCHANGED result
  /\ UNCHANGED <<dirs, files, worktrees, branches, remoteRefs, home, cl, removedLog,
                 pre, opsDone, envOps>>
  /\ UNCHANGED <<sib, queryVars>>

\* A createWorktree whose failed fetch is swallowed.
create_Fetch_Swallowed(gitOk) ==
  /\ pc = "cr_fetch"
  /\ io' = Append(io, "fetch")
  /\ pc' = "cr_add"
  /\ cr' = [cr EXCEPT !.fetchThrew = ~gitOk]
  /\ UNCHANGED <<dirs, files, worktrees, branches, remoteRefs, home, cl, result,
                 removedLog, pre, opsDone, envOps>>
  /\ UNCHANGED <<sib, queryVars>>

\* createWorktree, first half: git fetch origin. Its throw leaves the tool.
create_Fetch(gitOk) ==
  /\ pc = "cr_fetch"
  /\ io' = Append(io, "fetch")
  /\ IF gitOk
       THEN pc' = "cr_add" /\ UNCHANGED <<result, cr>>
       ELSE /\ pc' = "failed"
            /\ cr' = [cr EXCEPT !.fetchThrew = TRUE]
            /\ result' = [op |-> "create", ok |-> FALSE, error |-> "TrunkSyncFailed"]
  /\ UNCHANGED <<dirs, files, worktrees, branches, remoteRefs, home, cl,
                 removedLog, pre, opsDone, envOps>>
  /\ UNCHANGED <<sib, queryVars>>

\* The base createWorktree branches from: the caller's baseBranch when given,
\* else getDefaultBranch.
baseOf(baseBranch) ==
  IF baseBranch # "none" THEN baseBranch ELSE getDefaultBranch

\* A git worktree add that is forced: it takes a path and a branch that exist.
worktreeAddAllowed_Force(path, branch, base) ==
  /\ base \in remoteRefs
  /\ ValidRefName(branch)
  /\ path # Root

\* Whether git worktree add <path> -b <branch> <base> can succeed: the base ref
\* exists, the branch name is well-formed and free, and the path is neither
\* listed nor occupied (an existing empty directory is accepted).
worktreeAddAllowed(path, branch, base) ==
  /\ base \in remoteRefs
  /\ ValidRefName(branch)
  /\ \A b \in branches : ~RefConflict(b, branch)
  /\ path # Root
  /\ path \notin WorktreePaths
  /\ path \notin files
  /\ \A q \in Prefixes(path) : q \notin files
  /\ path \in dirs => Children(path) = {}

\* A createWorktreeTool that goes on to the install stage after a failed add.
create_WorktreeAdd_Swallowed(gitOk, lockFiles) ==
  /\ pc = "cr_add"
  /\ io' = Append(io, "worktreeAdd")
  /\ LET base == baseOf(cr.baseBranch) IN
     IF gitOk /\ worktreeAddAllowed(cr.worktreePath, cr.fullBranchName, base)
       THEN /\ dirs' = dirs \cup Prefixes(cr.worktreePath)
            /\ files' = files \cup {Append(cr.worktreePath, f) : f \in lockFiles}
            /\ worktrees' = Append(worktrees,
                 [path |-> cr.worktreePath, branch |-> cr.fullBranchName, base |-> base])
            /\ branches' = branches \cup {cr.fullBranchName}
            /\ UNCHANGED cr
       ELSE /\ cr' = [cr EXCEPT !.addThrew = TRUE]
            /\ UNCHANGED <<dirs, files, worktrees, branches>>
  /\ pc' = "cr_install"
  /\ UNCHANGED <<remoteRefs, home, cl, result, removedLog, pre, opsDone, envOps>>
  /\ UNCHANGED <<sib, queryVars>>

\* createWorktree, second half: git worktree add. On success the directory, the
\* branch and the list entry exist and the checkout has brought its lock files;
\* a throw leaves the tool.
create_WorktreeAdd(gitOk, lockFiles) ==
  /\ pc = "cr_add"
  /\ io' = Append(io, "worktreeAdd")
  /\ LET base == baseOf(cr.baseBranch) IN
     IF gitOk /\ worktreeAddAllowed(cr.worktreePath, cr.fullBranchName, base)
       THEN /\ dirs' = dirs \cup Prefixes(cr.worktreePath)
            /\ files' = files \cup {Append(cr.worktreePath, f) : f \in lockFiles}
            /\ worktrees' = Append(worktrees,
                 [path |-> cr.worktreePath, branch |-> cr.fullBranchName, base |-> base])
            /\ branches' = branches \cup {cr.fullBranchName}
            /\ pc' = "cr_install"
            /\ UNCHANGED <<result, cr>>
       ELSE /\ pc' = "failed"
            /\ cr' = [cr EXCEPT !.addThrew = TRUE]
            /\ result' = [op |-> "create", ok |-> FALSE,
                          error |-> "WorktreeCreationFailed"]
            /\ UNCHANGED <<dirs, files, worktrees, branches>>
  /\ UNCHANGED <<remoteRefs, home, cl, removedLog, pre, opsDone, envOps>>
  /\ UNCHANGED <<sib, queryVars>>

\* detectPackageManager: the first lock file found, in the order pnpm, npm, yarn.
detectPackageManager(worktreePath) ==
  IF Append(worktreePath, <<"pnpm-lock.yaml">>) \in files THEN "pnpm"
  ELSE IF Append(worktreePath, <<"package-lock.json">>) \in files THEN "npm"
  ELSE IF Append(worktreePath, <<"yarn.lock">>) \in files THEN "yarn"
  ELSE "null"

\* A createWorktreeTool without the try/catch around installDependencies.
create_Install_Uncaught(execOk) ==
  /\ pc = "cr_install"
  /\ LET packageManager == detectPackageManager(cr.worktreePath) IN
     IF packageManager = "null"
       THEN /\ io' = Append(io, "detectPackageManager")
            /\ cr' = [cr EXCEPT !.dependenciesInstalled = FALSE,
                                !.packageManager = "null"]
            /\ pc' = "cr_copy"
            /\ UNCHANGED result
       ELSE /\ io' = io \o <<"detectPackageManager", "install">>
            /\ IF execOk
                 THEN /\ cr' = [cr EXCEPT !.dependenciesInstalled = TRUE,
                                          !.packageManager = packageManager]
                      /\ pc' = "cr_copy"
                      /\ UNCHANGED result
                 ELSE /\ cr' = [cr EXCEPT !.installThrew = TRUE]
                      /\ pc' = "failed"
                      /\ result' = [op |-> "create", ok |-> FALSE,
                                    error |-> "InstallFailed"]
  /\ UNCHANGED <<dirs, files, worktrees, branches, remoteRefs, home, cl,
                 removedLog, pre, opsDone, envOps>>
  /\ UNCHANGED <<sib, queryVars>>

\* The install stage: installDependencies returns {false, null} without a lock
\* file, {true, manager} after a successful install, and throws when the install
\* command fails; createWorktreeTool catches the throw and goes on.
create_Install(execOk) ==
  /\ pc = "cr_install"
  /\ LET packageManager == detectPackageManager(cr.worktreePath) IN
     IF packageManager = "null"
       THEN /\ io' = Append(io, "detectPackageManager")
            /\ cr' = [cr EXCEPT !.dependenciesInstalled = FALSE,
                                !.packageManager = "null"]
       ELSE /\ io' = io \o <<"detectPackageManager", "install">>
            /\ IF execOk
                 THEN cr' = [cr EXCEPT !.dependenciesInstalled = TRUE,
                                       !.packageManager = packageManager]
                 ELSE cr' = [cr EXCEPT !.installThrew = TRUE]
  /\ pc' = "cr_copy"
  /\ UNCHANGED <<dirs, files, worktrees, branches, remoteRefs, home, cl, result,
                 removedLog, pre, opsDone, envOps>>
  /\ UNCHANGED <<sib, queryVars>>

\* The .env* files glob finds at the top of the main checkout, in order.
envFilesOf(mainRepoPath) ==
  SelectSeq(EnvFileNames, LAMBDA f : Append(mainRepoPath, f) \in files)

\* What createWorktreeTool returns.
createResult(c) ==
  [op |-> "create", ok |-> TRUE, error |-> "none",
   worktreePath |-> c.worktreePath, branchFullName |-> c.fullBranchName,
   username |-> c.username, usernameSource |-> c.usernameSource,
   repoName |-> c.repoName, dependenciesInstalled |-> c.dependenciesInstalled,
   packageManager |-> c.packageManager, envFilesCopied |-> c.envFilesCopied]

\* The env-copy stage and the return: copyEnvFiles copies the files one by one
\* and returns their number; a throw after n copies is caught by
\* createWorktreeTool, which then reports 0.
create_CopyEnv(n) ==
  /\ pc = "cr_copy"
  /\ LET envFiles == envFilesOf(cr.mainRepoRoot)
         threw == n < Len(envFiles)
         done == [cr EXCEPT !.envFilesCopied = IF threw THEN 0 ELSE n,
                            !.copyThrew = threw]
     IN /\ n \in 0..Len(envFiles)
        /\ files' = files \cup {Append(cr.worktreePath, envFiles[i]) : i \in 1..n}
        /\ cr' = done
        /\ result' = createResult(done)
  /\ io' = Append(io, "copyEnv")
  /\ pc' = "done"
  /\ UNCHANGED <<dirs, worktrees, branches, remoteRefs, home, cl, removedLog, pre,
                 opsDone, envOps>>
  /\ UNCHANGED <<sib, queryVars>>

\* ---------------------------------------------------------------- cleanup

\* The worktreePath arguments tried: every listed worktree and the hand-made
\* locations, listed or not.
CleanupPaths == WorktreePaths \cup ManualWorktrees

\* cleanupWorktreeTool up to the branch-name probe: getMainRepoRoot (throws
\* outside a repository), then rev-parse --abbrev-ref HEAD in worktreePath, whose
\* failure leaves branchName undefined.
cleanup_Start(worktreePath, shouldDeleteBranch, inRepo, revparseOk) ==
  /\ Begin
  /\ cr' = NoCreate
  /\ IF ~inRepo
       THEN /\ pc' = "failed"
            /\ io' = <<"worktreeList">>
            /\ result' = [op |-> "cleanup", ok |-> FALSE, error |-> "NotARepository"]
            /\ cl' = [NoCleanup EXCEPT !.active = TRUE,
                                       !.worktreePath = worktreePath,
                                       !.shouldDeleteBranch = shouldDeleteBranch]
       ELSE /\ pc' = "cl_remove"
            /\ io' = <<"worktreeList", "revparse">>
            /\ result' = [op |-> "cleanup", ok |-> FALSE, error |-> "pending"]
            /\ cl' = [NoCleanup EXCEPT
                        !.active = TRUE,
                        !.worktreePath = worktreePath,
                        !.shouldDeleteBranch = shouldDeleteBranch,
                        !.mainRepoPath = getMainRepoRoot,
                        !.branchName =
                          IF revparseOk /\ worktreePath \in WorktreePaths
                               /\ worktreePath \in dirs
                            THEN BranchAt(worktreePath)
                            ELSE Undefined]
  /\ UNCHANGED <<dirs, files, worktrees, branches, remoteRefs, home, envOps>>
  /\ UNCHANGED <<sib, queryVars>>

\* A cleanupWorktreeTool that goes on after a failed removal.
cleanup_RemoveWorktree_Swallowed(gitOk) ==
  /\ pc = "cl_remove"
  /\ io' = Append(io, "worktreeRemove")
  /\ IF gitOk /\ IsLinkedWorktree(cl.worktreePath)
       THEN /\ dirs' = WithoutTree(dirs, cl.worktreePath)
            /\ files' = WithoutTree(files, cl.worktreePath)
            /\ worktrees' = SelectSeq(worktrees, LAMBDA w : w.path # cl.worktreePath)
            /\ UNCHANGED cl
       ELSE /\ cl' = [cl EXCEPT !.removeThrew = TRUE]
            /\ UNCHANGED <<dirs, files, worktrees>>
  /\ pc' = "cl_branch"
  /\ UNCHANGED <<branches, remoteRefs, home, cr, result, removedLog, pre, opsDone,
                 envOps>>
  /\ UNCHANGED <<sib, queryVars>>

\* removeWorktree: git worktree remove <path> --force. It fails on a path that
\* is no linked worktree (and may fail otherwise); the throw leaves the tool.
cleanup_RemoveWorktree(gitOk) ==
  /\ pc = "cl_remove"
  /\ io' = Append(io, "worktreeRemove")
  /\ IF gitOk /\ IsLinkedWorktree(cl.worktreePath)
       THEN /\ dirs' = WithoutTree(dirs, cl.worktreePath)
            /\ files' = WithoutTree(files, cl.worktreePath)
            /\ worktrees' = SelectSeq(worktrees, LAMBDA w : w.path # cl.worktreePath)
            /\ pc' = "cl_branch"
            /\ UNCHANGED <<result, cl>>
       ELSE /\ pc' = "failed"
            /\ cl' = [cl EXCEPT !.removeThrew = TRUE]
            /\ result' = [op |-> "cleanup", ok |-> FALSE,
                          error |-> "WorktreeRemovalFailed"]
            /\ UNCHANGED <<dirs, files, worktrees>>
  /\ UNCHANGED <<branches, remoteRefs, home, cr, removedLog, pre, opsDone, envOps>>
  /\ UNCHANGED <<sib, queryVars>>

\* Whether git branch -D <name> can succeed: the branch exists and no worktree
\* has it checked out.
branchDeleteAllowed(name) == name \in branches /\ name \notin CheckedOut

\* A cleanupWorktreeTool without the try/catch around deleteBranch.
cleanup_DeleteBranch_Uncaught(gitOk) ==
  /\ pc = "cl_branch"
  /\ IF cl.shouldDeleteBranch /\ cl.branchName # Undefined /\ cl.branchName # <<>>
       THEN /\ io' = Append(io, "branchDelete")
            /\ IF gitOk /\ branchDeleteAllowed(cl.branchName)
                 THEN /\ branches' = branches \ {cl.branchName}
                      /\ cl' = [cl EXCEPT !.branchDeleted = TRUE,
                                          !.currentDir = dirname(cl.worktreePath)]
                      /\ pc' = "cl_walk"
                      /\ UNCHANGED result
                 ELSE /\ UNCHANGED branches
                      /\ cl' = [cl EXCEPT !.deleteThrew = TRUE]
                      /\ pc' = "failed"
                      /\ result' = [op |-> "cleanup", ok |-> FALSE,
                                    error |-> "BranchDeletionFailed"]
       ELSE /\ UNCHANGED <<io, branches, result>>
            /\ cl' = [cl EXCEPT !.currentDir = dirname(cl.worktreePath)]
            /\ pc' = "cl_walk"
  /\ UNCHANGED <<dirs, files, worktrees, remoteRefs, home, cr, removedLog,
                 pre, opsDone, envOps>>
  /\ UNCHANGED <<sib, queryVars>>

\* The optional branch deletion: deleteBranch is tried only when requested and a
\* branch name was recorded; its throw is caught and logged. Then the walk is
\* set at the parent of worktreePath.
cleanup_DeleteBranch(gitOk) ==
  /\ pc = "cl_branch"
  /\ IF cl.shouldDeleteBranch /\ cl.branchName # Undefined /\ cl.branchName # <<>>
       THEN /\ io' = Append(io, "branchDelete")
            /\ IF gitOk /\ branchDeleteAllowed(cl.branchName)
                 THEN /\ branches' = branches \ {cl.branchName}
                      /\ cl' = [cl EXCEPT !.branchDeleted = TRUE,
                                          !.currentDir = dirname(cl.worktreePath)]
                 ELSE /\ UNCHANGED branches
                      /\ cl' = [cl EXCEPT !.deleteThrew = TRUE,
                                          !.currentDir = dirname(cl.worktreePath)]
       ELSE /\ UNCHANGED <<io, branches>>
            /\ cl' = [cl EXCEPT !.currentDir = dirname(cl.worktreePath)]
  /\ pc' = "cl_walk"
  /\ UNCHANGED <<dirs, files, worktrees, remoteRefs, home, cr, result, removedLog,
                 pre, opsDone, envOps>>
  /\ UNCHANGED <<sib, queryVars>>

\* A loop condition without the home directory test.
walkContinues_NoHomeTest(currentDir) ==
  /\ currentDir # Root
  /\ includesWorktrees(currentDir)

\* A loop that stops at the worktrees base directory and leaves it.
walkContinues_KeepContainer(currentDir) ==
  /\ currentDir # Root
  /\ currentDir # home
  /\ includesWorktrees(dirname(currentDir))

\* The condition of the pruning loop.
walkContinues(currentDir) ==
  /\ currentDir # Root
  /\ currentDir # home
  /\ includesWorktrees(currentDir)

\* What cleanupWorktreeTool returns.
cleanupResult(c) ==
  [op |-> "cleanup", ok |-> TRUE, error |-> "none", removed |-> TRUE,
   worktreePath |-> c.worktreePath, branchName |-> c.branchName,
   branchDeleted |-> c.branchDeleted, directoriesRemoved |-> c.directoriesRemoved]

\* One test of the loop condition: the loop body is entered or the tool returns.
cleanup_WalkTest ==
  /\ pc = "cl_walk"
  /\ cl' = [cl EXCEPT !.walked = TRUE]
  /\ IF walkContinues(cl.currentDir)
       THEN pc' = "cl_readdir" /\ UNCHANGED result
       ELSE pc' = "done" /\ result' = cleanupResult(cl')
  /\ UNCHANGED <<dirs, files, worktrees, branches, remoteRefs, home, cr, io,
                 removedLog, pre, opsDone, envOps>>
  /\ UNCHANGED <<sib, queryVars>>

\* A loop whose catch goes round again instead of leaving the loop.
cleanup_Readdir_Retry(fsOk) ==
  /\ pc = "cl_readdir"
  /\ IF fsOk /\ cl.currentDir \in dirs
       THEN /\ io' = Append(io, "readdir")
            /\ IF Children(cl.currentDir) = {}
                 THEN pc' = "cl_rmdir" /\ UNCHANGED result
                 ELSE pc' = "done" /\ result' = cleanupResult(cl)
       ELSE pc' = "cl_walk" /\ UNCHANGED <<io, result>>
  /\ UNCHANGED <<dirs, files, worktrees, branches, remoteRefs, home, cl, cr,
                 removedLog, pre, opsDone, envOps>>
  /\ UNCHANGED <<sib, queryVars>>

\* fs.readdir(currentDir): a throw (missing or unreadable directory) or a
\* non-empty listing ends the walk and the tool returns.
cleanup_Readdir(fsOk) ==
  /\ pc = "cl_readdir"
  /\ io' = Append(io, "readdir")
  /\ IF fsOk /\ cl.currentDir \in dirs /\ Children(cl.currentDir) = {}
       THEN pc' = "cl_rmdir" /\ UNCHANGED result
       ELSE pc' = "done" /\ result' = cleanupResult(cl)
  /\ UNCHANGED <<dirs, files, worktrees, branches, remoteRefs, home, cl, cr,
                 removedLog, pre, opsDone, envOps>>
  /\ UNCHANGED <<sib, queryVars>>

\* fs.rmdir with the report made before the removal is known to have succeeded.
cleanup_Rmdir_ReportFirst(fsOk) ==
  /\ pc = "cl_rmdir"
  /\ io' = Append(io, "rmdir")
  /\ IF fsOk /\ rmdirAllowed(cl.currentDir)
       THEN /\ removedLog' = Append(removedLog,
                 [dir |-> cl.currentDir, entries |-> Children(cl.currentDir)])
            /\ dirs' = WithoutTree(dirs, cl.currentDir)
            /\ files' = WithoutTree(files, cl.currentDir)
            /\ cl' = [cl EXCEPT
                        !.directoriesRemoved = Append(@, cl.currentDir),
                        !.currentDir = dirname(cl.currentDir)]
            /\ pc' = "cl_walk"
            /\ UNCHANGED result
       ELSE /\ pc' = "done"
            /\ cl' = [cl EXCEPT !.directoriesRemoved = Append(@, cl.currentDir)]
            /\ result' = cleanupResult(cl')
            /\ UNCHANGED <<dirs, files, removedLog>>
  /\ UNCHANGED <<worktrees, branches, remoteRefs, home, cr, pre, opsDone, envOps>>
  /\ UNCHANGED <<sib, queryVars>>

\* A loop without the try/catch: a throw of fs.rmdir leaves the tool.
cleanup_Rmdir_Uncaught(fsOk) ==
  /\ pc = "cl_rmdir"
  /\ io' = Append(io, "rmdir")
  /\ IF fsOk /\ rmdirAllowed(cl.currentDir)
       THEN /\ removedLog' = Append(removedLog,
                 [dir |-> cl.currentDir, entries |-> Children(cl.currentDir)])
            /\ dirs' = WithoutTree(dirs, cl.currentDir)
            /\ files' = WithoutTree(files, cl.currentDir)
            /\ cl' = [cl EXCEPT
                        !.directoriesRemoved = Append(@, cl.currentDir),
                        !.currentDir = dirname(cl.currentDir)]
            /\ pc' = "cl_walk"
            /\ UNCHANGED result
       ELSE /\ pc' = "failed"
            /\ result' = [op |-> "cleanup", ok |-> FALSE, error |-> "RmdirFailed"]
            /\ UNCHANGED <<dirs, files, cl, removedLog>>
  /\ UNCHANGED <<worktrees, branches, remoteRefs, home, cr, pre, opsDone, envOps>>
  /\ UNCHANGED <<sib, queryVars>>

\* fs.rmdir(currentDir): on success the directory is reported and the walk moves
\* to its parent; a throw ends the walk and the tool returns.
cleanup_Rmdir(fsOk) ==
  /\ pc = "cl_rmdir"
  /\ io' = Append(io, "rmdir")
  /\ IF fsOk /\ rmdirAllowed(cl.currentDir)
       THEN /\ removedLog' = Append(removedLog,
                 [dir |-> cl.currentDir, entries |-> Children(cl.currentDir)])
            /\ dirs' = WithoutTree(dirs, cl.currentDir)
            /\ files' = WithoutTree(files, cl.currentDir)
            /\ cl' = [cl EXCEPT
                        !.directoriesRemoved = Append(@, cl.currentDir),
                        !.currentDir = dirname(cl.currentDir)]
            /\ pc' = "cl_walk"
            /\ UNCHANGED result
       ELSE /\ pc' = "done"
            /\ result' = cleanupResult(cl)
            /\ UNCHANGED <<dirs, files, cl, removedLog>>
  /\ UNCHANGED <<worktrees, branches, remoteRefs, home, cr, pre, opsDone, envOps>>
  /\ UNCHANGED <<sib, queryVars>>

\* ------------------------------------------------------------- the server

\* The request handler answers: the tool's result, or its throw as an error
\* message. Nothing of the call is kept.
respond ==
  /\ pc \in {"done", "failed"}
  /\ pc' = "idle"
  /\ cl' = NoCleanup
  /\ cr' = NoCreate
  /\ result' = NoResult
  /\ io' = <<>>
  /\ removedLog' = <<>>
  /\ pre' = NoSnapshot
  /\ UNCHANGED <<dirs, files, worktrees, branches, remoteRefs, home, opsDone, envOps>>
  /\ UNCHANGED <<sib, queryVars>>

\* ------------------------------------------------------- other processes

\* Another process creates a file in a directory above the removed worktree
\* while the pruning walk runs: the tool takes no lock on the filesystem.
env_WriteFile(d) ==
  /\ envOps < MaxEnvOps
  /\ pc \in {"cl_walk", "cl_readdir", "cl_rmdir"}
  /\ d \in dirs
  /\ d # Root
  /\ IsPrefix(d, dirname(cl.worktreePath))
  /\ Append(d, <<"stray">>) \notin files
  /\ files' = files \cup {Append(d, <<"stray">>)}
  /\ envOps' = envOps + 1
  /\ UNCHANGED <<dirs, worktrees, branches, remoteRefs, home, pc, cl, cr, result, io,
                 removedLog, pre, opsDone>>
  /\ UNCHANGED <<sib, queryVars>>

\* ------------------------------------------------------------ specification

Next ==
  \/ \E t \in Tickets, d \in Descriptions : create_Validate(t, d)
  \/ \E inRepo \in BOOLEAN, config \in ConfigFiles, ghLogin \in GhLogins,
        gitName \in GitNames, originUrl \in OriginUrls :
       create_Plan(inRepo, config, ghLogin, gitName, originUrl)
  \/ \E ok \in BOOLEAN : create_Fetch(ok)
  \/ \E ok \in BOOLEAN, lockFiles \in LockFileSets : create_WorktreeAdd(ok, lockFiles)
  \/ \E ok \in BOOLEAN : create_Install(ok)
  \/ \E n \in 0..Len(EnvFileNames) : create_CopyEnv(n)
  \/ \E p \in CleanupPaths, del \in BOOLEAN, inRepo \in BOOLEAN, ok \in BOOLEAN :
       cleanup_Start(p, del, inRepo, ok)
  \/ \E ok \in BOOLEAN : cleanup_RemoveWorktree(ok)
  \/ \E ok \in BOOLEAN : cleanup_DeleteBranch(ok)
  \/ cleanup_WalkTest
  \/ \E ok \in BOOLEAN : cleanup_Readdir(ok)
  \/ \E ok \in BOOLEAN : cleanup_Rmdir(ok)
  \/ respond
  \/ \E d \in dirs : env_WriteFile(d)

Spec == Init /\ [][Next]_vars

\* The tool is an async function that runs on once called: each await of the
\* pruning loop settles (fs.readdir and fs.rmdir return or throw), and the loop
\* condition is evaluated when it does.
WalkFairness ==
  /\ WF_vars(cleanup_WalkTest)
  /\ WF_vars(\E ok \in BOOLEAN : cleanup_Readdir(ok))
  /\ WF_vars(\E ok \in BOOLEAN : cleanup_Rmdir(ok))

SpecWalk == Spec /\ WalkFairness

\* ------------------------------------------------- detectUsername on its own

\* No repository is looked at and no create or cleanup runs.
NoRepository ==
  /\ dirs = {Root}
  /\ files = {}
  /\ worktrees = <<>>
  /\ branches = {}
  /\ remoteRefs = {}
  /\ home = NoHome

NoLifecycle ==
  /\ cl = NoCleanup
  /\ cr = NoCreate
  /\ removedLog = <<>>
  /\ pre = NoSnapshot
  /\ opsDone = 0
  /\ envOps = 0
  /\ sib = NoSibling

\* What detectUsername can find: the override file (Undefined: no path given, or
\* the file cannot be read), the output of gh api user (Undefined: the command
\* fails or times out), git's user.name (Undefined: unset, or git fails).
IdentityConfigs ==
  {Undefined,
   <<>>,
   <<"#", "\n">>,
   <<"USERNAME=", "\n">>,
   <<"USERNAME=", " ", "\n">>,
   <<"USERNAME=", " ", "a", "l", " ", "\n">>,
   <<"X", "=", "1", "\n", "USERNAME=", "a", "l">>}

IdentityLogins ==
  {Undefined, <<>>, <<"\n">>, <<"b", "-", "o", "\n">>, <<"O", "c", "t", "o", "\n">>}

IdentityNames ==
  {Undefined, <<>>, <<"!", "!">>, <<"B", " ", "O", "!">>, <<"A", "l", "i", "c", "e">>}

InitIdentity ==
  \E config \in IdentityConfigs, ghLogin \in IdentityLogins, gitName \in IdentityNames :
    /\ NoRepository
    /\ NoLifecycle
    /\ pc = "id_detect"
    /\ result = NoResult
    /\ io = <<>>
    /\ wtState = <<>>
    /\ ls = NoList
    /\ st = NoStatus
    /\ prc = NoPR
    /\ nm = NoNaming
    /\ ident = [active |-> TRUE, config |-> config, ghLogin |-> ghLogin,
                gitName |-> gitName, username |-> Undefined, source |-> "none"]

\* One run of detectUsername on what it finds.
identity_Detect ==
  /\ pc = "id_detect"
  /\ LET id == detectUsername(ident.config, ident.ghLogin, ident.gitName)
     IN IF id.ok
          THEN /\ pc' = "done"
               /\ ident' = [ident EXCEPT !.username = id.username, !.source = id.source]
               /\ result' = [op |-> "identity", ok |-> TRUE, error |-> "none"]
          ELSE /\ pc' = "failed"
               /\ UNCHANGED ident
               /\ result' = [op |-> "identity", ok |-> FALSE,
                             error |-> "IdentityUnresolved"]
  /\ io' = Append(io, "identity")
  /\ UNCHANGED <<repoVars, lifecycleVars, wtState, ls, st, prc, nm>>

NextIdentity == identity_Detect

SpecIdentity == InitIdentity /\ [][NextIdentity]_vars

\* ---------------------------------------------- the normalisation on its own

\* The symbols the strings tried are made of: an upper-case letter, a lower-case
\* letter, a digit, a hyphen, two kinds of whitespace and a punctuation mark.
NormalizeAlphabet == {"A", "b", "1", "-", " ", "\t", "!"}

BillingFeature ==
  <<"B", "i", "l", "l", "i", "n", "g", " ", "F", "e", "a", "t", "u", "r", "e", "!">>

\* Every string of at most MaxLen symbols, and the documented example.
NormalizeInputs ==
  UNION {[1..n -> NormalizeAlphabet] : n \in 0..MaxLen} \cup {BillingFeature}

InitNormalize ==
  \E s \in NormalizeInputs :
    /\ NoRepository
    /\ NoLifecycle
    /\ pc = "nz_first"
    /\ result = NoResult
    /\ io = <<>>
    /\ wtState = <<>>
    /\ ls = NoList
    /\ st = NoStatus
    /\ prc = NoPR
    /\ ident = NoIdentity
    /\ nm = [active |-> TRUE, input |-> s, once |-> Undefined, twice |-> Undefined,
             username |-> Undefined]

\* The description's normalisation, and normalizeUsername, applied to the input.
normalize_First ==
  /\ pc = "nz_first"
  /\ pc' = "nz_second"
  /\ nm' = [nm EXCEPT !.once = normalizeBranchName(nm.input),
                      !.username = normalizeUsername(nm.input)]
  /\ UNCHANGED <<repoVars, lifecycleVars, result, io, wtState, ls, st, prc, ident>>

\* The normalisation applied to its own output.
normalize_Second ==
  /\ pc = "nz_second"
  /\ pc' = "done"
  /\ nm' = [nm EXCEPT !.twice = normalizeBranchName(nm.once)]
  /\ UNCHANGED <<repoVars, lifecycleVars, result, io, wtState, ls, st, prc, ident>>

NextNormalize == normalize_First \/ normalize_Second

SpecNormalize == InitNormalize /\ [][NextNormalize]_vars

\* ------------------------------------------------ the naming scheme on its own

\* The arguments and the resolved values the naming is computed from.
NamingTickets ==
  {<<>>, <<" ">>, <<"T", "1">>, <<" ", "T", "1">>, <<"C", "O", "-", "1", "0", "0">>,
   <<"a", "/", "b">>, <<"..">>, <<"..", "/", "..">>,
   <<"..", "/", "..", "/", "acme">>}

NamingDescriptions ==
  {<<"\t", " ">>,
   <<"b", "i", "l", "l", "i", "n", "g", " ", "f", "e", "a", "t", "u", "r", "e">>,
   <<"F", " ", " ", "x", "!">>,
   <<"!">>,
   <<"U", "P", " ", "2">>}

NamingHandles == {<<"a", "l", "i", "c", "e">>, <<"O", "c", "t", "o">>}

NamingRepoNames == {<<"a", "c", "m", "e">>, <<"w", "e", "b">>}

NamingRoots == MainRoots \cup {<< <<"acme">> >>}

\* A path as it is written: each component after a "/".
RECURSIVE PathString(_)
PathString(p) ==
  IF p = <<>> THEN <<>> ELSE <<"/">> \o Head(p) \o PathString(Tail(p))

InitNaming ==
  \E ticket \in NamingTickets, description \in NamingDescriptions,
     handle \in NamingHandles, repoName \in NamingRepoNames, mainRoot \in NamingRoots :
    /\ NoRepository
    /\ NoLifecycle
    /\ pc = "nm_validate"
    /\ result = NoResult
    /\ io = <<>>
    /\ wtState = <<>>
    /\ ls = NoList
    /\ st = NoStatus
    /\ prc = NoPR
    /\ ident = NoIdentity
    /\ nm = [active |-> TRUE, ticket |-> ticket, branchName |-> description,
             username |-> handle, repoName |-> repoName, mainRepoRoot |-> mainRoot,
             normalizedBranchName |-> Undefined, fullBranchName |-> Undefined,
             worktreePath |-> Root]

\* The validation of the two arguments.
naming_Validate ==
  /\ pc = "nm_validate"
  /\ IF validArgument(nm.ticket) /\ validArgument(nm.branchName)
       THEN pc' = "nm_compute" /\ UNCHANGED result
       ELSE /\ pc' = "failed"
            /\ result' = [op |-> "naming", ok |-> FALSE, error |-> "InvalidArgument"]
  /\ UNCHANGED <<repoVars, lifecycleVars, io, wtState, ls, st, prc, ident, nm>>

\* The normalised description, the branch name and the worktree path.
naming_Compute ==
  /\ pc = "nm_compute"
  /\ pc' = "done"
  /\ LET normalizedBranchName == normalizeBranchName(nm.branchName)
     IN nm' = [nm EXCEPT
                 !.normalizedBranchName = normalizedBranchName,
                 !.fullBranchName =
                   fullBranchNameOf(nm.username, nm.ticket, normalizedBranchName),
                 !.worktreePath =
                   worktreePathOf(worktreesDirOf(nm.mainRepoRoot, nm.repoName),
                                  nm.username, nm.ticket, normalizedBranchName)]
  /\ result' = [op |-> "naming", ok |-> TRUE, error |-> "none"]
  /\ UNCHANGED <<repoVars, lifecycleVars, io, wtState, ls, st, prc, ident>>

NextNaming == naming_Validate \/ naming_Compute

SpecNaming == InitNaming /\ [][NextNaming]_vars

\* ------------------------------------------------------------ listing worktrees

\* A decimal numeral, as git prints a count.
RECURSIVE Numeral(_)
Numeral(n) ==
  IF n < Len(DigitSyms)
    THEN <<DigitSyms[n + 1]>>
    ELSE Numeral(n \div Len(DigitSyms)) \o <<DigitSyms[(n % Len(DigitSyms)) + 1]>>

\* What git worktree list --porcelain prints for one worktree: its path, its
\* HEAD, its branch or "detached", and the empty line that ends the entry.
PorcelainEntry(w) ==
  << <<"worktree ", w.path>>,
     <<"HEAD ", wtState[w.path].head>>,
     IF w.branch = Undefined THEN <<"detached">>
                             ELSE <<"branch ", "refs/heads/", w.branch>>,
     <<>> >>

RECURSIVE PorcelainEntries(_)
PorcelainEntries(ws) ==
  IF ws = <<>> THEN <<>> ELSE PorcelainEntry(Head(ws)) \o PorcelainEntries(Tail(ws))

\* worktrees.split('\n') of the command's output, which ends with a line break.
PorcelainLines == PorcelainEntries(worktrees) \o << <<>> >>

\* currentWorktree = {}
EmptyWorktreeInfo ==
  [path |-> Undefined, head |-> Undefined, branch |-> Undefined, isMain |-> FALSE]

startsWith(line, prefix) == line # <<>> /\ Head(line) = prefix

\* The loop of listWorktrees over the lines.
RECURSIVE ParseWorktreeLines(_, _, _)
ParseWorktreeLines(lines, parsed, currentWorktree) ==
  IF lines = <<>> THEN parsed
  ELSE LET line == Head(lines)
           rest == Tail(lines)
       IN IF startsWith(line, "worktree ")
            THEN ParseWorktreeLines(
                   rest,
                   IF currentWorktree.path # Undefined
                     THEN Append(parsed, currentWorktree) ELSE parsed,
                   [EmptyWorktreeInfo EXCEPT !.path = line[2]])
          ELSE IF startsWith(line, "HEAD ")
            THEN ParseWorktreeLines(rest, parsed,
                                    [currentWorktree EXCEPT !.head = line[2]])
          ELSE IF startsWith(line, "branch ")
            THEN ParseWorktreeLines(rest, parsed,
                                    [currentWorktree EXCEPT !.branch = line[3]])
          ELSE IF line = <<>>
            THEN (IF currentWorktree.path # Undefined
                    THEN ParseWorktreeLines(rest, Append(parsed, currentWorktree),
                                            EmptyWorktreeInfo)
                    ELSE ParseWorktreeLines(rest, parsed, currentWorktree))
          ELSE ParseWorktreeLines(rest, parsed, currentWorktree)

\* A listWorktrees that marks no record.
listWorktrees_Unmarked == ParseWorktreeLines(PorcelainLines, <<>>, EmptyWorktreeInfo)

\* listWorktrees: the records parsed from the lines, the first one marked main.
listWorktrees ==
  LET parsed == ParseWorktreeLines(PorcelainLines, <<>>, EmptyWorktreeInfo)
  IN IF parsed # <<>> THEN [parsed EXCEPT ![1].isMain = TRUE] ELSE parsed

\* listWorktrees as a function of the lines of the command's output.
parseWorktreeList(lines) ==
  LET parsed == ParseWorktreeLines(lines, <<>>, EmptyWorktreeInfo)
  IN IF parsed # <<>> THEN [parsed EXCEPT ![1].isMain = TRUE] ELSE parsed

\* What git rev-list --left-right --count <tracking>...<branch> prints.
RevListCount(behind, ahead) == Numeral(behind) \o <<"\t">> \o Numeral(ahead) \o <<"\n">>

\* s.split('\t')
RECURSIVE SplitTab(_)
SplitTab(s) ==
  IF s = <<>> THEN << <<>> >>
  ELSE LET rest == SplitTab(Tail(s)) IN
       IF Head(s) = "\t"
         THEN << <<>> >> \o rest
         ELSE << <<Head(s)>> \o rest[1] >> \o Tail(rest)

DigitValue(c) == (CHOOSE i \in 1..Len(DigitSyms) : DigitSyms[i] = c) - 1

IsDigit(c) == \E i \in 1..Len(DigitSyms) : DigitSyms[i] = c

\* parseInt(s, 10) || 0: the value of the leading digits, 0 when there are none.
RECURSIVE ParseDigits(_, _)
ParseDigits(s, acc) ==
  IF s = <<>> \/ ~IsDigit(Head(s)) THEN acc
  ELSE ParseDigits(Tail(s), acc * Len(DigitSyms) + DigitValue(Head(s)))

parseIntOrZero(s) == ParseDigits(TrimStart(s), 0)

\* A getWorktreeStatus that reads the two counts the other way round.
getWorktreeStatus_Swapped(path) ==
  LET w == wtState[path]
      clean == ~w.changed
      tracked == ~w.detached /\ w.upstream
      parts == SplitTab(trim(RevListCount(w.behind, w.ahead)))
      counted == tracked /\ Len(parts) = 2
  IN [clean |-> clean,
      ahead |-> IF counted THEN parseIntOrZero(parts[1]) ELSE 0,
      behind |-> IF counted THEN parseIntOrZero(parts[2]) ELSE 0,
      uncommitted |-> ~clean]

\* getWorktreeStatus of the worktree at path, git.status() having succeeded:
\* clean when no file is changed; ahead and behind read from rev-list's output,
\* and 0 when HEAD is detached or has no upstream (the revparse throws).
getWorktreeStatus(path) ==
  LET w == wtState[path]
      clean == ~w.changed
      tracked == ~w.detached /\ w.upstream
      parts == SplitTab(trim(RevListCount(w.behind, w.ahead)))
      counted == tracked /\ Len(parts) = 2
  IN [clean |-> clean,
      ahead |-> IF counted THEN parseIntOrZero(parts[2]) ELSE 0,
      behind |-> IF counted THEN parseIntOrZero(parts[1]) ELSE 0,
      uncommitted |-> ~clean]

\* The status of an entry that has none: the record is returned as parsed.
StatusAbsent == [absent |-> TRUE]

\* The repository listed: the main checkout and up to MaxWorktrees worktrees of
\* the tool's layout.
ListMainRoot == HomeU \o << <<"acme">> >>

ListPath(i) ==
  HomeU \o << <<"acme", WT>>, <<"al">>, <<"T", DigitSyms[i + 1]>>, <<"f">> >>

ListBranch(i) == <<"al", "/", "T", DigitSyms[i + 1], "/", "f">>

ListHead(i) == <<"c", DigitSyms[i + 1]>>

\* What git finds in a listed worktree.
ListStates ==
  {[changed |-> FALSE, upstream |-> TRUE, ahead |-> 3, behind |-> 0],
   [changed |-> TRUE, upstream |-> TRUE, ahead |-> 1, behind |-> 2]}

InitList ==
  \E n \in 0..MaxWorktrees :
    \E detached \in SUBSET (1..n), found \in [1..n -> ListStates] :
      /\ dirs = UNION {Prefixes(p) : p \in {ListMainRoot} \cup {ListPath(i) : i \in 1..n}}
      /\ files = {}
      /\ worktrees =
           <<[path |-> ListMainRoot, branch |-> <<"master">>, base |-> "none"]>>
           \o [i \in 1..n |->
                [path |-> ListPath(i),
                 branch |-> IF i \in detached THEN Undefined ELSE ListBranch(i),
                 base |-> toolBaseBranch]]
      /\ branches = {<<"master">>} \cup {ListBranch(i) : i \in 1..n}
      /\ remoteRefs = TrunkRefs
      /\ home = HomeU
      /\ NoLifecycle
      /\ pc = "ls_start"
      /\ result = NoResult
      /\ io = <<>>
      /\ wtState =
           [p \in {ListMainRoot} \cup {ListPath(i) : i \in 1..n} |->
              IF p = ListMainRoot
                THEN [head |-> ListHead(0), detached |-> FALSE, changed |-> FALSE,
                      upstream |-> TRUE, ahead |-> 0, behind |-> 0]
                ELSE LET i == CHOOSE k \in 1..n : ListPath(k) = p
                     IN [head |-> ListHead(i), detached |-> i \in detached,
                         changed |-> found[i].changed, upstream |-> found[i].upstream,
                         ahead |-> found[i].ahead, behind |-> found[i].behind]]
      /\ ls = NoList
      /\ st = NoStatus
      /\ prc = NoPR
      /\ ident = NoIdentity
      /\ nm = NoNaming

\* listWorktreesTool up to its Promise.all: the main root, the enumeration, and
\* one status query started for every record that is not the main one.
list_Start(inRepo) ==
  /\ pc = "ls_start"
  /\ IF inRepo
       THEN /\ pc' = "ls_await"
            /\ io' = io \o <<"worktreeList", "worktreeList">>
            /\ ls' = [active |-> TRUE,
                      mainRepoPath |-> getMainRepoRoot,
                      worktrees |-> listWorktrees,
                      pending |-> {i \in 1..Len(listWorktrees) : ~listWorktrees[i].isMain},
                      withStatus |-> [i \in 1..Len(listWorktrees) |-> StatusAbsent],
                      failed |-> {},
                      settled |-> <<>>]
            /\ UNCHANGED result
       ELSE /\ pc' = "failed"
            /\ io' = Append(io, "worktreeList")
            /\ ls' = [active |-> TRUE, mainRepoPath |-> Undefined, worktrees |-> <<>>,
                      pending |-> {}, withStatus |-> <<>>, failed |-> {},
                      settled |-> <<>>]
            /\ result' = [op |-> "list", ok |-> FALSE, error |-> "NotARepository"]
  /\ UNCHANGED <<repoVars, lifecycleVars, wtState, st, prc, ident, nm>>

\* A status query whose failure rejects the whole Promise.all.
list_StatusSettles_Uncaught(i, statusOk) ==
  /\ pc = "ls_await"
  /\ i \in ls.pending
  /\ io' = Append(io, "status")
  /\ IF statusOk
       THEN /\ ls' = [ls EXCEPT
                        !.pending = @ \ {i},
                        !.settled = Append(@, i),
                        !.withStatus[i] = getWorktreeStatus(ls.worktrees[i].path)]
            /\ UNCHANGED <<pc, result>>
       ELSE /\ ls' = [ls EXCEPT !.pending = @ \ {i}, !.settled = Append(@, i),
                                !.failed = @ \cup {i}]
            /\ pc' = "failed"
            /\ result' = [op |-> "list", ok |-> FALSE, error |-> "StatusFailed"]
  /\ UNCHANGED <<repoVars, lifecycleVars, wtState, st, prc, ident, nm>>

\* One of the pending status queries settles, in whatever order: its record
\* gets the status, or, when the query threw, stays without one.
list_StatusSettles(i, statusOk) ==
  /\ pc = "ls_await"
  /\ i \in ls.pending
  /\ io' = Append(io, "status")
  /\ ls' = [ls EXCEPT
              !.pending = @ \ {i},
              !.settled = Append(@, i),
              !.failed = IF statusOk THEN @ ELSE @ \cup {i},
              !.withStatus[i] = IF statusOk
                                  THEN getWorktreeStatus(ls.worktrees[i].path)
                                  ELSE StatusAbsent]
  /\ UNCHANGED <<repoVars, lifecycleVars, pc, result, wtState, st, prc, ident, nm>>

\* One entry of the tool's answer: the record, with its status when it has one.
listItem(w, status) ==
  [path |-> w.path, branch |-> w.branch, head |-> w.head, isMain |-> w.isMain,
   status |-> status]

\* Promise.all resolves when every query has settled: the records in the order
\* of the enumeration, the main one filtered out.
list_Return ==
  /\ pc = "ls_await"
  /\ ls.pending = {}
  /\ pc' = "done"
  /\ LET worktreesWithStatus ==
           [i \in 1..Len(ls.worktrees) |-> listItem(ls.worktrees[i], ls.withStatus[i])]
     IN result' = [op |-> "list", ok |-> TRUE, error |-> "none",
                   worktrees |-> SelectSeq(worktreesWithStatus, LAMBDA w : ~w.isMain),
                   mainRepoPath |-> ls.mainRepoPath]
  /\ UNCHANGED <<repoVars, lifecycleVars, io, wtState, ls, st, prc, ident, nm>>

NextList ==
  \/ \E inRepo \in BOOLEAN : list_Start(inRepo)
  \/ \E i \in 1..(MaxWorktrees + 1), ok \in BOOLEAN : list_StatusSettles(i, ok)
  \/ list_Return

SpecList == InitList /\ [][NextList]_vars

\* ------------------------------------------------------- the status of a worktree

StatusPath == ListPath(1)

InitStatus ==
  \E changed \in BOOLEAN, detached \in BOOLEAN, upstream \in BOOLEAN,
     ahead \in 0..MaxCommits, behind \in 0..MaxCommits :
    /\ dirs = Prefixes(ListMainRoot) \cup Prefixes(StatusPath)
    /\ files = {}
    /\ worktrees =
         <<[path |-> ListMainRoot, branch |-> <<"master">>, base |-> "none"],
           [path |-> StatusPath,
            branch |-> IF detached THEN Undefined ELSE ListBranch(1),
            base |-> toolBaseBranch]>>
    /\ branches = {<<"master">>, ListBranch(1)}
    /\ remoteRefs = TrunkRefs
    /\ home = HomeU
    /\ NoLifecycle
    /\ pc = "st_query"
    /\ result = NoResult
    /\ io = <<>>
    /\ wtState =
         [p \in {StatusPath} |->
            [head |-> ListHead(1), detached |-> detached, changed |-> changed,
             upstream |-> upstream, ahead |-> ahead, behind |-> behind]]
    /\ ls = NoList
    /\ st = [active |-> TRUE, worktreePath |-> StatusPath, status |-> StatusAbsent]
    /\ prc = NoPR
    /\ ident = NoIdentity
    /\ nm = NoNaming

\* await getWorktreeStatus(worktreePath): a throw of git.status() is the tool's.
status_Query(statusOk) ==
  /\ pc = "st_query"
  /\ io' = Append(io, "status")
  /\ IF statusOk
       THEN /\ pc' = "st_report"
            /\ st' = [st EXCEPT !.status = getWorktreeStatus(st.worktreePath)]
            /\ UNCHANGED result
       ELSE /\ pc' = "failed"
            /\ result' = [op |-> "status", ok |-> FALSE, error |-> "StatusFailed"]
            /\ UNCHANGED st
  /\ UNCHANGED <<repoVars, lifecycleVars, wtState, ls, prc, ident, nm>>

\* The message chosen for a status.
statusMessage(status) ==
  IF ~status.clean THEN [text |-> "uncommitted changes", count |-> 0]
  ELSE IF status.ahead = 0 THEN [text |-> "no commits to push", count |-> 0]
  ELSE IF status.behind > 0 THEN [text |-> "behind master", count |-> status.behind]
  ELSE [text |-> "ready for PR", count |-> status.ahead]

\* readyForPR, the message and the result.
status_Report ==
  /\ pc = "st_report"
  /\ pc' = "done"
  /\ result' = [op |-> "status", ok |-> TRUE, error |-> "none",
                clean |-> st.status.clean, ahead |-> st.status.ahead,
                behind |-> st.status.behind, uncommitted |-> st.status.uncommitted,
                worktreePath |-> st.worktreePath,
                readyForPR |-> st.status.clean /\ st.status.ahead > 0,
                message |-> statusMessage(st.status)]
  /\ UNCHANGED <<repoVars, lifecycleVars, io, wtState, ls, st, prc, ident, nm>>

NextStatus ==
  \/ \E ok \in BOOLEAN : status_Query(ok)
  \/ status_Report

SpecStatus == InitStatus /\ [][NextStatus]_vars

\* ------------------------------------------------------- creating a pull request

PRPath == ListPath(1)

\* Commit messages: a one-line one and one with further lines.
PRMessages == {<<"fix bug">>, <<"add x", "\n", "\n", "details">>}

\* The commit lists git log can return: up to MaxCommits - 1 messages.
PRCommitLists == UNION {[1..n -> PRMessages] : n \in 0..(MaxCommits - 1)}

\* The branch HEAD is on in the worktree the pull request is made from.
PRHeads == {<<"master">>, <<"main">>, ListBranch(1)}

\* The title and body arguments tried (Undefined: not given).
PRTitles == {Undefined, <<>>, <<"my title">>}
PRBodies == {Undefined, <<>>, <<"my body">>}

InitPR ==
  \E head \in PRHeads, refs \in (SUBSET TrunkRefs) \ {{}} :
    \E since \in [refs -> PRCommitLists] :
      /\ dirs = Prefixes(ListMainRoot) \cup Prefixes(PRPath)
      /\ files = {}
      /\ worktrees =
           <<[path |-> ListMainRoot, branch |-> <<"trunk">>, base |-> "none"],
             [path |-> PRPath, branch |-> head, base |-> "none"]>>
      /\ branches = {head}
      /\ remoteRefs = refs
      /\ home = HomeU
      /\ NoLifecycle
      /\ pc = "pr_start"
      /\ result = NoResult
      /\ io = <<>>
      /\ wtState =
           [p \in {PRPath} |-> [head |-> ListHead(1), branch |-> head,
                                commitsSince |-> since]]
      /\ ls = NoList
      /\ st = NoStatus
      /\ prc = [active |-> TRUE, worktreePath |-> PRPath, title |-> Undefined,
                body |-> Undefined, prTitle |-> Undefined, prBody |-> Undefined,
                generated |-> FALSE, baseBranch |-> Undefined, gitFailed |-> FALSE]
      /\ ident = NoIdentity
      /\ nm = NoNaming

\* !x for a string | undefined
falsy(x) == x = Undefined \/ x = <<>>

\* msg.split('\n')[0]
RECURSIVE FirstLine(_)
FirstLine(msg) ==
  IF msg = <<>> \/ Head(msg) = "\n" THEN <<>> ELSE <<Head(msg)>> \o FirstLine(Tail(msg))

\* commits.map(msg => `- ${first line}`).join('\n')
RECURSIVE Bullets(_)
Bullets(commits) ==
  IF commits = <<>> THEN <<>>
  ELSE <<"- ">> \o FirstLine(Head(commits))
       \o (IF Tail(commits) = <<>> THEN <<>> ELSE <<"\n">> \o Bullets(Tail(commits)))

\* generatePRContent on a commit list that is not empty.
generatePRContent(commits) ==
  [title |-> FirstLine(commits[1]),
   body |-> IF Len(commits) > 1
              THEN <<"## Commits", "\n", "\n">> \o Bullets(commits)
              ELSE <<>>]

\* The base getCommitsSinceBase logs from: its default baseBranch.
logBase == "origin/master"

\* createPRTool's entry: the content is generated when a title or a body is
\* missing.
pr_Start(title, body) ==
  /\ pc = "pr_start"
  /\ prc' = [prc EXCEPT !.title = title, !.body = body,
                        !.prTitle = title, !.prBody = body]
  /\ pc' = IF falsy(title) \/ falsy(body) THEN "pr_generate" ELSE "pr_head"
  /\ UNCHANGED <<repoVars, lifecycleVars, result, io, wtState, ls, st, ident, nm>>

\* generatePRContent: the log from origin/master to HEAD, a throw when it is
\* empty, else the title and the body, used where the caller gave none.
pr_Generate(gitOk) ==
  /\ pc = "pr_generate"
  /\ io' = io \o <<"revparse", "log">>
  /\ IF ~gitOk
       THEN /\ pc' = "failed"
            /\ prc' = [prc EXCEPT !.gitFailed = TRUE]
            /\ result' = [op |-> "createPR", ok |-> FALSE, error |-> "GitFailed"]
     ELSE IF logBase \notin remoteRefs
       THEN /\ pc' = "failed"
            /\ UNCHANGED prc
            /\ result' = [op |-> "createPR", ok |-> FALSE, error |-> "UnknownRevision"]
     ELSE LET commits == wtState[prc.worktreePath].commitsSince[logBase]
          IN IF commits = <<>>
               THEN /\ pc' = "failed"
                    /\ UNCHANGED prc
                    /\ result' = [op |-> "createPR", ok |-> FALSE, error |-> "NoCommits"]
               ELSE /\ pc' = "pr_head"
                    /\ prc' = [prc EXCEPT
                                !.generated = TRUE,
                                !.prTitle = IF falsy(prc.title)
                                              THEN generatePRContent(commits).title
                                              ELSE prc.title,
                                !.prBody = IF falsy(prc.body)
                                             THEN generatePRContent(commits).body
                                             ELSE prc.body]
                    /\ UNCHANGED result
  /\ UNCHANGED <<repoVars, lifecycleVars, wtState, ls, st, ident, nm>>

\* createPullRequest up to the base branch: a HEAD on master or main is refused.
pr_CheckHead(gitOk) ==
  /\ pc = "pr_head"
  /\ io' = Append(io, "revparse")
  /\ IF ~gitOk
       THEN /\ pc' = "failed"
            /\ prc' = [prc EXCEPT !.gitFailed = TRUE]
            /\ result' = [op |-> "createPR", ok |-> FALSE, error |-> "GitFailed"]
     ELSE IF wtState[prc.worktreePath].branch \in {<<"master">>, <<"main">>}
       THEN /\ pc' = "failed"
            /\ UNCHANGED prc
            /\ result' = [op |-> "createPR", ok |-> FALSE,
                          error |-> "CannotCreateFromTrunk"]
     ELSE /\ pc' = "pr_token"
          /\ prc' = [prc EXCEPT !.baseBranch = IF <<"master">> \in branches
                                                 THEN <<"master">> ELSE <<"main">>]
          /\ UNCHANGED result
  /\ UNCHANGED <<repoVars, lifecycleVars, wtState, ls, st, ident, nm>>

\* getGitHubToken and getGitHubRepoInfo: the token from the environment or from
\* gh auth token, and owner and repository from origin's URL.
pr_Credentials(tokenFound, hosted) ==
  /\ pc = "pr_token"
  /\ io' = Append(io, "credentials")
  /\ IF ~tokenFound
       THEN /\ pc' = "failed"
            /\ result' = [op |-> "createPR", ok |-> FALSE,
                          error |-> "AuthenticationRequired"]
     ELSE IF ~hosted
       THEN /\ pc' = "failed"
            /\ result' = [op |-> "createPR", ok |-> FALSE, error |-> "NotHosted"]
     ELSE pc' = "pr_submit" /\ UNCHANGED result
  /\ UNCHANGED <<repoVars, lifecycleVars, wtState, ls, st, prc, ident, nm>>

\* octokit.pulls.create: the request to the hosted provider.
pr_Submit(networkOk) ==
  /\ pc = "pr_submit"
  /\ io' = Append(io, "network")
  /\ IF networkOk
       THEN /\ pc' = "done"
            /\ result' = [op |-> "createPR", ok |-> TRUE, error |-> "none",
                          title |-> prc.prTitle,
                          body |-> IF falsy(prc.prBody) THEN <<>> ELSE prc.prBody,
                          head |-> wtState[prc.worktreePath].branch,
                          base |-> prc.baseBranch,
                          worktreePath |-> prc.worktreePath]
       ELSE /\ pc' = "failed"
            /\ result' = [op |-> "createPR", ok |-> FALSE, error |-> "SubmitFailed"]
  /\ UNCHANGED <<repoVars, lifecycleVars, wtState, ls, st, prc, ident, nm>>

NextPR ==
  \/ \E title \in PRTitles, body \in PRBodies : pr_Start(title, body)
  \/ \E ok \in BOOLEAN : pr_Generate(ok)
  \/ \E ok \in BOOLEAN : pr_CheckHead(ok)
  \/ \E tokenFound \in BOOLEAN, hosted \in BOOLEAN : pr_Credentials(tokenFound, hosted)
  \/ \E ok \in BOOLEAN : pr_Submit(ok)

SpecPR == InitPR /\ [][NextPR]_vars


\* ------------------------------------------- listWorktrees on a given output

\* One entry of a porcelain output: its path, and either "bare" or a HEAD with
\* a branch or "detached".
ParseEntryKinds == {"branch", "detached", "bare"}

PorcelainEntryLines(i, kind) ==
  << <<"worktree ", IF i = 1 THEN ListMainRoot ELSE ListPath(i - 1)>> >>
  \o (IF kind = "bare" THEN << <<"bare">> >>
      ELSE << <<"HEAD ", ListHead(i - 1)>>,
              IF kind = "detached" THEN <<"detached">>
              ELSE <<"branch ", "refs/heads/",
                     IF i = 1 THEN <<"master">> ELSE ListBranch(i - 1)>> >>)

\* How the output ends after its last entry: "blank", a line break and an
\* empty line, as git prints it; "newline", the line break only; "none",
\* nothing, as in an output that went through a trim.
OutputEndings == {"blank", "newline", "none"}

\* worktrees.split('\n') of an output with the entries of `kinds`.
RECURSIVE PorcelainText(_, _, _)
PorcelainText(kinds, i, ending) ==
  IF i > Len(kinds) THEN (IF ending = "none" /\ Len(kinds) > 0 THEN <<>> ELSE << <<>> >>)
  ELSE PorcelainEntryLines(i, kinds[i])
       \o (IF i < Len(kinds) \/ ending = "blank" THEN << <<>> >> ELSE <<>>)
       \o PorcelainText(kinds, i + 1, ending)

InitParse ==
  \E n \in 0..(MaxWorktrees + 1) :
    \E kinds \in [1..n -> ParseEntryKinds], ending \in OutputEndings :
      /\ NoRepository
      /\ NoLifecycle
      /\ pc = "parse"
      /\ result = NoResult
      /\ io = <<>>
      /\ wtState = <<>>
      /\ ls = [active |-> TRUE, kinds |-> kinds, ending |-> ending,
               lines |-> PorcelainText(kinds, 1, ending), worktrees |-> <<>>]
      /\ st = NoStatus
      /\ prc = NoPR
      /\ ident = NoIdentity
      /\ nm = NoNaming

\* listWorktrees runs on the output.
parse_Apply ==
  /\ pc = "parse"
  /\ pc' = "done"
  /\ io' = Append(io, "worktreeList")
  /\ ls' = [ls EXCEPT !.worktrees = parseWorktreeList(ls.lines)]
  /\ UNCHANGED <<repoVars, lifecycleVars, result, wtState, st, prc, ident, nm>>

NextParse == parse_Apply

SpecParse == InitParse /\ [][NextParse]_vars


\* --------------------------------------- two calls on sibling worktrees at once

\* The worktree cleaned up, and the sibling another call works on meanwhile: a
\* worktree under the same ticket directory, or under the same handle directory
\* only.
RacePath == ListPath(1)

RaceSiblingPaths == {Append(dirname(RacePath), <<"g">>), ListPath(2)}

RaceBranch(p) == <<"al", "/">> \o p[Len(p) - 1] \o <<"/">> \o p[Len(p)]

InitRace ==
  \E sibling \in RaceSiblingPaths, kind \in {"create", "cleanup"},
     h \in {HomeU, NoHome} :
    LET there == {ListMainRoot, RacePath}
                 \cup (IF kind = "cleanup" THEN {sibling} ELSE {})
    IN /\ dirs = UNION {Prefixes(q) : q \in there}
       /\ files = {}
       /\ worktrees =
            <<[path |-> ListMainRoot, branch |-> <<"master">>, base |-> "none"],
              [path |-> RacePath, branch |-> RaceBranch(RacePath),
               base |-> toolBaseBranch]>>
            \o (IF kind = "cleanup"
                  THEN <<[path |-> sibling, branch |-> RaceBranch(sibling),
                          base |-> toolBaseBranch]>>
                  ELSE <<>>)
       /\ branches = {<<"master">>} \cup {RaceBranch(q) : q \in there \ {ListMainRoot}}
       /\ remoteRefs = TrunkRefs
       /\ home = h
       /\ pc = "idle"
       /\ cl = NoCleanup
       /\ cr = NoCreate
       /\ result = NoResult
       /\ io = <<>>
       /\ removedLog = <<>>
       /\ pre = NoSnapshot
       /\ opsDone = 0
       /\ envOps = 0
       /\ sib = [active |-> TRUE, kind |-> kind, worktreePath |-> sibling,
                 pc |-> IF kind = "create" THEN "add" ELSE "remove",
                 ensured |-> Len(ListMainRoot) - 1, currentDir |-> Root,
                 removedLog |-> <<>>,
                 walked |-> FALSE]
       /\ NoQueries

\* The cleanup of RacePath is called.
race_CleanupStart(shouldDeleteBranch) ==
  cleanup_Start(RacePath, shouldDeleteBranch, TRUE, TRUE)

\* The sibling create, in git worktree add: the leading directories and then
\* the worktree directory are seen to one by one, each made if it is missing;
\* with the worktree directory the list entry and the branch are there.
sibling_Mkdir ==
  /\ sib.active /\ sib.kind = "create" /\ sib.pc = "add"
  /\ LET d == SubSeq(sib.worktreePath, 1, sib.ensured + 1)
     IN /\ dirname(d) \in dirs
        /\ dirs' = dirs \cup {d}
        /\ IF d = sib.worktreePath
             THEN /\ worktrees' = Append(worktrees,
                        [path |-> d, branch |-> RaceBranch(d), base |-> toolBaseBranch])
                  /\ branches' = branches \cup {RaceBranch(d)}
                  /\ sib' = [sib EXCEPT !.ensured = @ + 1, !.pc = "done"]
             ELSE /\ sib' = [sib EXCEPT !.ensured = @ + 1]
                  /\ UNCHANGED <<worktrees, branches>>
  /\ UNCHANGED <<files, remoteRefs, home, pc, cl, cr, result, io, removedLog, pre,
                 opsDone, envOps, queryVars>>

\* The directory the sibling create had seen to is gone when it makes the next
\* one: git starts over with the leading directories, or gives up and the
\* create fails.
sibling_AddFails(retry) ==
  /\ sib.active /\ sib.kind = "create" /\ sib.pc = "add"
  /\ SubSeq(sib.worktreePath, 1, sib.ensured) \notin dirs
  /\ sib' = IF retry THEN [sib EXCEPT !.ensured = Len(ListMainRoot) - 1]
                     ELSE [sib EXCEPT !.pc = "failed"]
  /\ UNCHANGED <<repoVars, pc, cl, cr, result, io, removedLog, pre, opsDone, envOps,
                 queryVars>>

\* The sibling cleanup removes its worktree and sets its walk at the parent.
sibling_RemoveWorktree ==
  /\ sib.active /\ sib.kind = "cleanup" /\ sib.pc = "remove"
  /\ dirs' = WithoutTree(dirs, sib.worktreePath)
  /\ files' = WithoutTree(files, sib.worktreePath)
  /\ worktrees' = SelectSeq(worktrees, LAMBDA w : w.path # sib.worktreePath)
  /\ sib' = [sib EXCEPT !.pc = "walk", !.currentDir = dirname(sib.worktreePath)]
  /\ UNCHANGED <<branches, remoteRefs, home, pc, cl, cr, result, io, removedLog, pre,
                 opsDone, envOps, queryVars>>

\* The sibling cleanup's loop condition.
sibling_WalkTest ==
  /\ sib.active /\ sib.pc = "walk"
  /\ sib' = [sib EXCEPT !.walked = TRUE,
                        !.pc = IF walkContinues(sib.currentDir) THEN "readdir"
                                                                ELSE "done"]
  /\ UNCHANGED <<repoVars, pc, cl, cr, result, io, removedLog, pre, opsDone, envOps,
                 queryVars>>

\* The sibling cleanup's fs.readdir.
sibling_Readdir ==
  /\ sib.active /\ sib.pc = "readdir"
  /\ sib' = [sib EXCEPT
               !.pc = IF sib.currentDir \in dirs /\ Children(sib.currentDir) = {}
                        THEN "rmdir" ELSE "done"]
  /\ UNCHANGED <<repoVars, pc, cl, cr, result, io, removedLog, pre, opsDone, envOps,
                 queryVars>>

\* The sibling cleanup's fs.rmdir.
sibling_Rmdir ==
  /\ sib.active /\ sib.pc = "rmdir"
  /\ IF rmdirAllowed(sib.currentDir)
       THEN /\ dirs' = WithoutTree(dirs, sib.currentDir)
            /\ files' = WithoutTree(files, sib.currentDir)
            /\ sib' = [sib EXCEPT
                         !.removedLog = Append(@, [dir |-> sib.currentDir,
                                                   entries |-> Children(sib.currentDir)]),
                         !.currentDir = dirname(sib.currentDir),
                         !.pc = "walk"]
       ELSE /\ sib' = [sib EXCEPT !.pc = "done"]
            /\ UNCHANGED <<dirs, files>>
  /\ UNCHANGED <<worktrees, branches, remoteRefs, home, pc, cl, cr, result, io,
                 removedLog, pre, opsDone, envOps, queryVars>>

\* The two calls interleave at their awaits; every failure of a filesystem call
\* here comes from what the other call did.
NextRace ==
  \/ \E del \in BOOLEAN : race_CleanupStart(del)
  \/ cleanup_RemoveWorktree(TRUE)
  \/ cleanup_DeleteBranch(TRUE)
  \/ cleanup_WalkTest
  \/ cleanup_Readdir(TRUE)
  \/ cleanup_Rmdir(TRUE)
  \/ sibling_Mkdir
  \/ \E retry \in BOOLEAN : sibling_AddFails(retry)
  \/ sibling_RemoveWorktree
  \/ sibling_WalkTest
  \/ sibling_Readdir
  \/ sibling_Rmdir

SpecRace == InitRace /\ [][NextRace]_vars

\* ------------------------------------------------------------------ claims

IoSet == {io[i] : i \in 1..Len(io)}

RemovedDirs == {removedLog[i].dir : i \in 1..Len(removedLog)}

\* C1: every directory the pruning walk of cleanup removes is completely empty
\* at the moment it is removed; a directory with an entry is never removed.
C1_RemovedDirsWereEmpty ==
  \A i \in 1..Len(removedLog) : removedLog[i].entries = {}

\* C1, its case: the walk has removed an empty directory and has stopped at a
\* directory that holds an entry, which is still there.
C1_Witness ==
  /\ pc = "done"
  /\ cl.active
  /\ removedLog # <<>>
  /\ walkContinues(cl.currentDir)
  /\ cl.currentDir \in dirs
  /\ Children(cl.currentDir) # {}

\* C2: every directory removed by the pruning walk lies at or below the
\* container <mainRepoParent>/<repoName>-worktrees of the repository; no
\* directory outside it is removed.
C2_RemovedOnlyUnderContainer ==
  \A d \in RemovedDirs :
    IsPrefix(worktreesDirOf(getMainRepoRoot, getRepoName(Undefined, getMainRepoRoot)), d)

C4_BestEffortStagesNeverAbort ==
  /\ cr.installThrew =>
       /\ pc \in {"cr_copy", "done"}
       /\ IsLinkedWorktree(cr.worktreePath)
       /\ cr.worktreePath \in dirs
       /\ pc = "done" =>
            /\ result.ok
            /\ result.dependenciesInstalled = FALSE
            /\ "copyEnv" \in IoSet
  /\ cr.copyThrew =>
       /\ pc = "done"
       /\ result.ok
       /\ IsLinkedWorktree(cr.worktreePath)
       /\ cr.worktreePath \in dirs

\* C4, its case: create has returned after both its install and its env copy
\* failed.
C4_Witness ==
  /\ pc = "done"
  /\ cr.installThrew
  /\ cr.copyThrew
  /\ result.ok

\* C5: when the fetch of create fails, create fails, no worktree, branch or
\* directory has been created, and the worktree add, the install and the env
\* copy are not executed.
C5_FetchFailureIsFatal ==
  cr.fetchThrew =>
    /\ pc = "failed"
    /\ result.ok = FALSE
    /\ result.error = "TrunkSyncFailed"
    /\ Snapshot = pre
    /\ IoSet \cap {"worktreeAdd", "detectPackageManager", "install", "copyEnv"} = {}

\* C5, its case: a create whose fetch failed.
C5_Witness ==
  /\ pc = "failed"
  /\ cr.fetchThrew
  /\ io[Len(io)] = "fetch"

\* C6: when the worktree add of create fails, create fails and nothing further
\* is executed: no install, no env copy, no success result.
C6_AddFailureIsFatal ==
  cr.addThrew =>
    /\ pc = "failed"
    /\ result.ok = FALSE
    /\ result.error = "WorktreeCreationFailed"
    /\ IoSet \cap {"detectPackageManager", "install", "copyEnv"} = {}
    /\ io[Len(io)] = "worktreeAdd"

\* C6, its case: the add failed on a path that is a listed worktree already and
\* a branch that exists already.
C6_Witness ==
  /\ pc = "failed"
  /\ cr.addThrew
  /\ cr.worktreePath \in WorktreePaths
  /\ cr.fullBranchName \in branches

\* C7: a create whose ticket or description is empty after trimming fails with
\* the invalid-argument error before any external call is made and with nothing
\* changed.
C7_InvalidArgumentBeforeIO ==
  (cr.active /\ (trim(cr.ticket) = <<>> \/ trim(cr.branchName) = <<>>)) =>
    /\ pc = "failed"
    /\ result.error = "InvalidArgument"
    /\ io = <<>>
    /\ Snapshot = pre

\* C7, its case: a ticket of whitespace only was refused.
C7_Witness ==
  /\ pc = "failed"
  /\ cr.active
  /\ cr.ticket # <<>>
  /\ trim(cr.ticket) = <<>>
  /\ result.error = "InvalidArgument"

\* C8: create branches the new worktree from the resolved trunk ref:
\* origin/main when that ref exists, otherwise origin/master.
C8_BranchesFromResolvedTrunk ==
  (cr.active /\ "worktreeAdd" \in IoSet) => baseOf(cr.baseBranch) = getDefaultBranch

\* C9: when the worktree removal of cleanup fails, cleanup fails and does
\* nothing more: no branch is deleted and no directory is pruned.
C9_RemovalFailureIsFatal ==
  cl.removeThrew =>
    /\ pc = "failed"
    /\ result.ok = FALSE
    /\ result.error = "WorktreeRemovalFailed"
    /\ IoSet \cap {"branchDelete", "readdir", "rmdir"} = {}
    /\ ~cl.walked
    /\ removedLog = <<>>
    /\ Snapshot = pre

\* C9, its case: the removal failed in a cleanup that was asked to delete the
\* branch it had recorded.
C9_Witness ==
  /\ pc = "failed"
  /\ cl.removeThrew
  /\ cl.shouldDeleteBranch
  /\ cl.branchName # Undefined

\* C10: in cleanup neither a failure to record the branch name nor a failure
\* to delete the branch is fatal: cleanup throws only outside a repository or
\* when the removal fails; otherwise the removal and the pruning walk run and
\* cleanup returns removed = true; branchDeleted is true only if deletion was
\* requested, a branch name was recorded and the deletion succeeded.
C10_BranchStepsAreBestEffort ==
  cl.active =>
    /\ pc = "failed" => (result.error = "NotARepository" \/ cl.removeThrew)
    /\ cl.deleteThrew => pc \in {"cl_walk", "cl_readdir", "cl_rmdir", "done"}
    /\ pc = "done" =>
         /\ result.ok
         /\ result.removed
         /\ "worktreeRemove" \in IoSet
         /\ ~IsLinkedWorktree(cl.worktreePath)
         /\ cl.walked
         /\ result.branchDeleted =>
              /\ cl.shouldDeleteBranch
              /\ cl.branchName # Undefined
              /\ ~cl.deleteThrew
              /\ cl.branchName \in pre.branches
              /\ cl.branchName \notin branches
         /\ (cl.deleteThrew \/ cl.branchName = Undefined) => ~result.branchDeleted

\* C10, its case: the deletion of the recorded branch failed, and cleanup has
\* pruned a directory and returned.
C10_Witness ==
  /\ pc = "done"
  /\ cl.deleteThrew
  /\ removedLog # <<>>
  /\ result.removed

\* C11: the directoriesRemoved list cleanup returns holds exactly the
\* directories its pruning walk removed, in removal order: the first is the
\* parent of worktreePath, each later one the parent of the one before, and
\* they are the directories outside the worktree that are gone since the call
\* started.
C11_ReportedEqualsRemoved ==
  cl.active =>
    LET reported == cl.directoriesRemoved
    IN /\ reported = [i \in 1..Len(removedLog) |-> removedLog[i].dir]
       /\ reported # <<>> => reported[1] = dirname(cl.worktreePath)
       /\ \A i \in 2..Len(reported) : reported[i] = dirname(reported[i - 1])
       /\ (pc = "done" /\ result.ok) =>
            /\ result.directoriesRemoved = reported
            /\ {reported[i] : i \in 1..Len(reported)} =
                 {d \in pre.dirs : d \notin dirs /\ ~IsPrefix(cl.worktreePath, d)}

\* C11, its case: cleanup has returned a report of two directories, after a
\* removal that failed.
C11_Witness ==
  /\ pc = "done"
  /\ cl.active
  /\ Len(result.directoriesRemoved) = 2
  /\ io[Len(io)] = "rmdir"
  /\ Len(removedLog) < Cardinality({i \in 1..Len(io) : io[i] = "rmdir"})

\* C12: detectUsername returns the result of the first strategy that succeeds
\* in the order override file, hosted login, git user.name, tagged with that
\* strategy: an override with a value wins whatever the hosted login gives, a
\* strategy that yields nothing falls through to the next, and the run fails,
\* with the identity-unresolved error, exactly when all three yield nothing.
C12_FirstSuccessWins ==
  (ident.active /\ pc \in {"done", "failed"}) =>
    LET overrideOk ==
          /\ ident.config # Undefined
          /\ \E i \in 1..(Len(ident.config) - 1) :
               ident.config[i] = "USERNAME=" /\ ident.config[i + 1] # "\n"
        hostedOk == ident.ghLogin # Undefined /\ trim(ident.ghLogin) # <<>>
        localOk ==
          /\ ident.gitName # Undefined
          /\ \E i \in 1..Len(ident.gitName) :
               LowerSym(ident.gitName[i]) \in SlugSyms \cup Whitespace
    IN /\ overrideOk =>
            /\ pc = "done"
            /\ ident.source = "manual_config"
            /\ ident.username = trim(UsernameCapture(ident.config))
       /\ (~overrideOk /\ hostedOk) =>
            /\ pc = "done"
            /\ ident.source = "github_cli"
            /\ ident.username = trim(ident.ghLogin)
       /\ (~overrideOk /\ ~hostedOk /\ localOk) =>
            /\ pc = "done"
            /\ ident.source = "git_config"
            /\ ident.username = normalizeUsername(ident.gitName)
       /\ (~overrideOk /\ ~hostedOk /\ ~localOk) =>
            /\ pc = "failed"
            /\ result.error = "IdentityUnresolved"
       /\ (ident.config = <<"X", "=", "1", "\n", "USERNAME=", "a", "l">>) =>
            ident.username = <<"a", "l">>
       /\ (ident.config \in {Undefined, <<"USERNAME=", "\n">>}
            /\ ident.ghLogin = <<"O", "c", "t", "o", "\n">>) =>
            ident.username = <<"O", "c", "t", "o">>
       /\ (ident.config = <<>> /\ ident.ghLogin \in {Undefined, <<"\n">>}
            /\ ident.gitName = <<"B", " ", "O", "!">>) =>
            ident.username = <<"b", "-", "o">>

\* C12, its case: the override file holds a value and the hosted login works
\* too; the override's value is returned.
C12_Witness ==
  /\ pc = "done"
  /\ ident.active
  /\ ident.config = <<"USERNAME=", " ", "a", "l", " ", "\n">>
  /\ ident.ghLogin = <<"b", "-", "o", "\n">>
  /\ ident.source = "manual_config"
  /\ ident.username = <<"a", "l">>

\* C14: the description's normalisation (lowercase, each whitespace run to one
\* hyphen, every symbol outside [a-z0-9-] dropped) is idempotent, its output
\* holds only symbols of [a-z0-9-], and "Billing Feature!" gives
\* "billing-feature"; normalizeUsername is the same function.
C14_NormalizeIdempotent ==
  (nm.active /\ pc = "done") =>
    /\ nm.twice = nm.once
    /\ \A i \in 1..Len(nm.once) : nm.once[i] \in SlugSyms
    /\ nm.username = nm.once
    /\ nm.input = BillingFeature =>
         nm.once = <<"b", "i", "l", "l", "i", "n", "g", "-",
                     "f", "e", "a", "t", "u", "r", "e">>
    /\ nm.input = <<"A", " ", "\t">> => nm.once = <<"a", "-">>
    /\ nm.input = <<" ", "-", " ">> => nm.once = <<"-", "-", "-">>

\* C14, its case: an input with an upper-case letter, a whitespace run and a
\* punctuation mark has been normalised twice.
C14_Witness ==
  /\ pc = "done"
  /\ nm.active
  /\ nm.input = BillingFeature
  /\ nm.once # nm.input
  /\ nm.twice = nm.once

\* C13: for every valid ticket and description the branch name is
\* <handle>/<ticket>/<normalizedDescription> and the worktree path is
\* <mainRepoParent>/<repoName>-worktrees/<handle>/<ticket>/<normalizedDescription>,
\* that path string resolved as path.join resolves it; when the ticket is a
\* single path component these are the four components below the parent of the
\* main checkout; ticket "CO-100", description "billing feature", identity
\* "alice" and repository "acme" give branch "alice/CO-100/billing-feature" and
\* path <parent>/acme-worktrees/alice/CO-100/billing-feature.
C13_NamesAreExact ==
  (nm.active /\ pc = "done" /\ result.op = "naming") =>
    LET nd == nm.normalizedBranchName
        parent == dirname(nm.mainRepoRoot)
        written == PathString(parent) \o <<"/">> \o nm.repoName \o <<WT>> \o <<"/">>
                     \o nm.username \o <<"/">> \o nm.ticket \o <<"/">> \o nd
        simple == /\ \A i \in 1..Len(nm.ticket) : nm.ticket[i] \notin {"/", "..", "."}
                  /\ nd # <<>>
        alice == <<"a", "l", "i", "c", "e">>
        co100 == <<"C", "O", "-", "1", "0", "0">>
        billing == <<"b", "i", "l", "l", "i", "n", "g", "-",
                     "f", "e", "a", "t", "u", "r", "e">>
    IN /\ Len(nm.fullBranchName) = Len(nm.username) + Len(nm.ticket) + Len(nd) + 2
       /\ SubSeq(nm.fullBranchName, 1, Len(nm.username)) = nm.username
       /\ nm.fullBranchName[Len(nm.username) + 1] = "/"
       /\ SubSeq(nm.fullBranchName, Len(nm.username) + 2,
                 Len(nm.username) + 1 + Len(nm.ticket)) = nm.ticket
       /\ nm.fullBranchName[Len(nm.username) + Len(nm.ticket) + 2] = "/"
       /\ SubSeq(nm.fullBranchName, Len(nm.username) + Len(nm.ticket) + 3,
                 Len(nm.fullBranchName)) = nd
       /\ nm.worktreePath = Resolve(Root, Segments(written))
       /\ simple => nm.worktreePath =
                      parent \o <<nm.repoName \o <<WT>>, nm.username, nm.ticket, nd>>
       /\ (nm.ticket = co100 /\ nm.username = alice /\ nd = billing
            /\ nm.repoName = <<"a", "c", "m", "e">>
            /\ nm.mainRepoRoot = << <<"home">>, <<"u">>, <<"acme">> >>) =>
            /\ nm.fullBranchName = alice \o <<"/">> \o co100 \o <<"/">> \o billing
            /\ nm.worktreePath =
                 << <<"home">>, <<"u">>, <<"a", "c", "m", "e", WT>>, alice, co100, billing >>

\* C13, its case: the documented example has been computed.
C13_Witness ==
  /\ pc = "done"
  /\ nm.active
  /\ result.op = "naming"
  /\ nm.ticket = <<"C", "O", "-", "1", "0", "0">>
  /\ nm.branchName =
       <<"b", "i", "l", "l", "i", "n", "g", " ", "f", "e", "a", "t", "u", "r", "e">>
  /\ nm.username = <<"a", "l", "i", "c", "e">>
  /\ nm.repoName = <<"a", "c", "m", "e">>
  /\ nm.mainRepoRoot = << <<"home">>, <<"u">>, <<"acme">> >>
  /\ Len(nm.worktreePath) = Len(nm.mainRepoRoot) + 3

\* C15: listWorktrees returns exactly one record with isMain = true, and that
\* record is the first; every other record has isMain = false.
C15_ExactlyOneMainFirst ==
  (ls.active /\ pc \in {"ls_await", "done"}) =>
    /\ ls.worktrees # <<>>
    /\ ls.worktrees[1].isMain
    /\ ls.worktrees[1].path = worktrees[1].path
    /\ \A i \in 2..Len(ls.worktrees) : ~ls.worktrees[i].isMain
    /\ Cardinality({i \in 1..Len(ls.worktrees) : ls.worktrees[i].isMain}) = 1

\* C15, its case: an enumeration of the main checkout and MaxWorktrees linked
\* worktrees, one of them on a detached HEAD.
C15_Witness ==
  /\ ls.active
  /\ pc = "ls_await"
  /\ Len(ls.worktrees) = MaxWorktrees + 1
  /\ \E i \in 2..Len(ls.worktrees) : ls.worktrees[i].branch = Undefined

\* C16: whichever status queries of a listing fail and in whatever order they
\* settle, the listing succeeds (it fails only outside a repository) and
\* returns one entry per linked worktree in the order of the enumeration; an
\* entry whose query failed has no status, every other entry has the status of
\* its own worktree.
C16_StatusQueriesIndependent ==
  ls.active =>
    /\ pc = "failed" => result.error = "NotARepository"
    /\ pc = "done" =>
         /\ result.ok
         /\ Len(result.worktrees) = Len(worktrees) - 1
         /\ \A k \in 1..Len(result.worktrees) :
              LET e == result.worktrees[k]
                  w == worktrees[k + 1]
                  g == wtState[w.path]
                  tracked == g.upstream /\ ~g.detached
              IN /\ e.path = w.path
                 /\ e.branch = w.branch
                 /\ e.head = g.head
                 /\ (k + 1) \in ls.failed => e.status = StatusAbsent
                 /\ (k + 1) \notin ls.failed =>
                      e.status = [clean |-> ~g.changed,
                                  ahead |-> IF tracked THEN g.ahead ELSE 0,
                                  behind |-> IF tracked THEN g.behind ELSE 0,
                                  uncommitted |-> g.changed]

\* C16, its case: a listing of MaxWorktrees worktrees in different states
\* whose queries settled last to first, one of them having failed.
C16_Witness ==
  /\ pc = "done"
  /\ ls.active
  /\ MaxWorktrees > 1
  /\ Len(result.worktrees) = MaxWorktrees
  /\ \A k \in 1..(Len(ls.settled) - 1) : ls.settled[k] > ls.settled[k + 1]
  /\ Cardinality(ls.failed) = 1
  /\ wtState[worktrees[2].path].changed # wtState[worktrees[Len(worktrees)].path].changed
  /\ \E k \in 1..Len(result.worktrees) : result.worktrees[k].status = StatusAbsent
  /\ \E k \in 1..Len(result.worktrees) : result.worktrees[k].status # StatusAbsent

\* C17: the status operation reports readyForPR = true exactly when the
\* worktree is clean and at least one commit ahead of its upstream; with
\* uncommitted changes it reports clean = false, readyForPR = false and the
\* uncommitted-changes message; clean, 3 ahead and 0 behind it reports
\* readyForPR = true; without an upstream it reports ahead = 0 and behind = 0
\* and does not fail.
C17_ReadyWhenCleanAndAhead ==
  (st.active /\ pc \in {"done", "failed"}) =>
    LET g == wtState[st.worktreePath]
        tracked == g.upstream /\ ~g.detached
    IN /\ pc = "failed" => io = <<"status">> /\ st.status = StatusAbsent
       /\ pc = "done" =>
            /\ result.ok
            /\ result.clean = ~g.changed
            /\ result.readyForPR = (~g.changed /\ tracked /\ g.ahead >= 1)
            /\ g.changed =>
                 /\ ~result.clean
                 /\ ~result.readyForPR
                 /\ result.message.text = "uncommitted changes"
            /\ (~g.changed /\ tracked /\ g.ahead = 3 /\ g.behind = 0) =>
                 /\ result.readyForPR
                 /\ result.ahead = 3
                 /\ result.behind = 0
            /\ tracked => result.ahead = g.ahead /\ result.behind = g.behind
            /\ ~tracked => result.ahead = 0 /\ result.behind = 0

\* C17, its case: a clean worktree 3 commits ahead of its upstream and not
\* behind it has been reported ready.
C17_Witness ==
  /\ pc = "done"
  /\ st.active
  /\ ~wtState[st.worktreePath].changed
  /\ wtState[st.worktreePath].upstream
  /\ wtState[st.worktreePath].ahead = 3
  /\ wtState[st.worktreePath].behind = 0
  /\ result.readyForPR

\* C18: createPR invoked while HEAD is on master or main fails with the
\* cannot-create-from-trunk error, whether or not a title and a body were
\* given and whatever the commit range holds, and neither looks up credentials
\* nor calls the hosted provider. (Runs in which a git command itself broke
\* down are left aside.)
C18_TrunkHeadRefused ==
  (/\ prc.active
   /\ wtState[prc.worktreePath].branch \in {<<"master">>, <<"main">>}
   /\ pc \in {"done", "failed"}
   /\ ~prc.gitFailed) =>
    /\ pc = "failed"
    /\ result.error = "CannotCreateFromTrunk"
    /\ IoSet \cap {"credentials", "network"} = {}

\* C19: the content generation fails with the no-commits error when the commit
\* range between the trunk (origin/main when it exists, else origin/master) and
\* HEAD is empty; otherwise the title is the first line of the first commit
\* message of that range and the body is empty for one commit and the heading
\* followed by one bullet per commit, in range order, for more. (Runs in which
\* a git command itself broke down are left aside.)
C19_ContentFromTrunkRange ==
  (/\ prc.active
   /\ "log" \in IoSet
   /\ ~prc.gitFailed) =>
    LET range == wtState[prc.worktreePath].commitsSince[getDefaultBranch]
    IN IF range = <<>>
         THEN pc = "failed" /\ result.error = "NoCommits"
         ELSE /\ prc.generated
              /\ falsy(prc.title) => prc.prTitle = FirstLine(range[1])
              /\ falsy(prc.body) =>
                   prc.prBody = IF Len(range) = 1 THEN <<>>
                                ELSE <<"## Commits", "\n", "\n">> \o Bullets(range)

\* The worktree and the branch the running create computed were made by the add
\* of an earlier create and still existed when this create started.
CreatedEarlier ==
  /\ cr.active
  /\ \E i \in DOMAIN pre.worktrees :
       /\ pre.worktrees[i].path = cr.worktreePath
       /\ pre.worktrees[i].branch = cr.fullBranchName
       /\ pre.worktrees[i].base # "none"

\* C20: a create that computes the path and the branch an earlier create has
\* added never gets past the worktree add: its add throws and the create fails
\* with the worktree-creation error, neither install nor env copy runs, and the
\* directories, the worktree list and the branches stay as they were when it
\* started. (A fetch that throws ends the create one step sooner.)
C20_RetryFailsAtAdd ==
  CreatedEarlier =>
    /\ pc \in {"cr_fetch", "cr_add", "failed"}
    /\ IoSet \cap {"detectPackageManager", "install", "copyEnv"} = {}
    /\ Snapshot = pre
    /\ "worktreeAdd" \in IoSet =>
         /\ pc = "failed"
         /\ cr.addThrew
         /\ result = [op |-> "create", ok |-> FALSE,
                      error |-> "WorktreeCreationFailed"]
    /\ pc = "failed" => (cr.fetchThrew \/ io[Len(io)] = "worktreeAdd")

\* C20, its case: the second create of a behaviour fetched, then failed at the
\* add on the worktree and the branch the first create had made.
C20_Witness ==
  /\ CreatedEarlier
  /\ opsDone = 2
  /\ pc = "failed"
  /\ ~cr.fetchThrew
  /\ cr.addThrew
  /\ cr.fullBranchName \in pre.branches

\* The record the entry i of an output stands for.
EntryRecord(i, kind) ==
  [path |-> IF i = 1 THEN ListMainRoot ELSE ListPath(i - 1),
   head |-> IF kind = "bare" THEN Undefined ELSE ListHead(i - 1),
   branch |-> IF kind # "branch" THEN Undefined
              ELSE IF i = 1 THEN <<"master">> ELSE ListBranch(i - 1),
   isMain |-> i = 1]

C22_WalkTerminates ==
  /\ []((cl.active /\ pc \in {"cl_walk", "cl_readdir", "cl_rmdir", "done"}) =>
         /\ IsPrefix(cl.currentDir, cl.worktreePath)
         /\ Len(cl.currentDir) + Len(cl.directoriesRemoved) + 1 = Len(cl.worktreePath)
         /\ pc = "done" =>
              \/ cl.currentDir = Root
              \/ cl.currentDir = home
              \/ ~includesWorktrees(cl.currentDir)
              \/ io[Len(io)] \in {"readdir", "rmdir"})
  /\ (cl.active /\ pc \in {"cl_walk", "cl_readdir", "cl_rmdir"})
       ~> (cl.active /\ pc = "done")

\* C22, its case: a walk that removed three directories, up to and including
\* the container, and ended at a directory outside the container.
C22_Witness ==
  /\ cl.active
  /\ pc = "done"
  /\ Len(cl.directoriesRemoved) = 3
  /\ ~includesWorktrees(cl.currentDir)
  /\ cl.currentDir \notin {Root, home}

\* The second call of a behaviour is a cleanup, asked to delete the branch, of
\* the worktree the first call, a create, added; it has returned, no other
\* process wrote meanwhile, and none of its steps failed for a reason outside
\* the tool: the branch name was read, the deletion did not throw, and the walk
\* did not end at an empty directory it was still to remove.
RoundTripDone ==
  /\ cl.active
  /\ pc = "done"
  /\ opsDone = 2
  /\ envOps = 0
  /\ cl.shouldDeleteBranch
  /\ \E i \in DOMAIN pre.worktrees :
       pre.worktrees[i].path = cl.worktreePath /\ pre.worktrees[i].base # "none"
  /\ cl.branchName # Undefined
  /\ ~cl.deleteThrew
  /\ ~(/\ walkContinues(cl.currentDir)
        /\ cl.currentDir \in dirs
        /\ Children(cl.currentDir) = {})

\* The directories there were before the first call: those of the main
\* checkout, of the worktrees made by hand and of the home directory.
DirsBeforeCreate ==
  UNION {Prefixes(pre.worktrees[i].path) :
           i \in {j \in DOMAIN pre.worktrees : pre.worktrees[j].base = "none"}}
  \cup (IF home = NoHome THEN {} ELSE Prefixes(home))

C24_WalksSpareSiblings ==
  sib.active =>
    /\ \A i \in DOMAIN removedLog : removedLog[i].entries = {}
    /\ \A i \in DOMAIN sib.removedLog : sib.removedLog[i].entries = {}
    /\ \A i \in DOMAIN worktrees : Prefixes(worktrees[i].path) \subseteq dirs
    /\ cl.walked => pc \in {"cl_walk", "cl_readdir", "cl_rmdir", "done"}
    /\ (cl.active /\ pc = "done") => (result.ok /\ result.removed)
    /\ sib.walked => sib.pc # "failed"

\* C24, its case: the cleanup found the shared handle directory empty, the
\* sibling create made its ticket directory in it, the cleanup's rmdir of the
\* handle directory failed, and the cleanup returned; the sibling's worktree is
\* there.
C24_Witness ==
  /\ sib.active
  /\ sib.kind = "create"
  /\ sib.pc = "done"
  /\ pc = "done"
  /\ result.ok
  /\ io[Len(io)] = "rmdir"
  /\ cl.currentDir = SubSeq(RacePath, 1, Len(RacePath) - 2)
  /\ cl.currentDir \in dirs
  /\ sib.worktreePath \in dirs

\* C25: for every ticket and description that pass the validation, the worktree
\* path create computes lies strictly inside the container directory
\* <mainRepoParent>/<repoName>-worktrees: it is not the container, not the main
\* checkout, and not outside the container.
C25_PathInsideContainer ==
  (nm.active /\ pc = "done" /\ result.op = "naming") =>
    LET container == worktreesDirOf(nm.mainRepoRoot, nm.repoName)
    IN /\ IsPrefix(container, nm.worktreePath)
       /\ nm.worktreePath # container
       /\ nm.worktreePath # nm.mainRepoRoot

\* C26: whenever detectUsername returns, the handle it returns is a non-empty
\* string, whatever the override file, the hosted login and git's user.name
\* hold.
C26_HandleNonEmpty ==
  (ident.active /\ pc = "done") =>
    /\ ident.username # Undefined
    /\ ident.username # <<>>

\* C28: in every status result the verdict and the message agree: readyForPR is
\* true exactly when the message is the "Clean and N commit(s) ahead - ready for
\* PR" one, N being the commits ahead.
C28_VerdictMatchesMessage ==
  (st.active /\ pc = "done") =>
    /\ result.readyForPR <=> (result.message.text = "ready for PR")
    /\ result.message.text = "ready for PR" => result.message.count = result.ahead

\* C27: for every description that passes the validation the normalised
\* description is not empty, so the last "/"-separated segment of the branch
\* name is not empty and the worktree path ends in a description directory
\* below the ticket directory.
C27_DescriptionSurvives ==
  (nm.active /\ pc = "done" /\ result.op = "naming") =>
    LET segs == Segments(nm.fullBranchName)
    IN /\ nm.normalizedBranchName # <<>>
       /\ segs[Len(segs)] = nm.normalizedBranchName
       /\ \A i \in 1..Len(segs) : segs[i] # <<>>
       /\ nm.worktreePath # Root
       /\ basename(nm.worktreePath) = nm.normalizedBranchName

\* C29: what a successful create reports about its best-effort stages is what
\* happened on disk: envFilesCopied is the number of env files that are in the
\* new worktree, also when the copy threw part-way; packageManager is null only
\* when the worktree holds no lock file, also when the install threw.
C29_ReportMatchesDisk ==
  (cr.active /\ pc = "done" /\ result.ok) =>
    /\ result.envFilesCopied =
         Cardinality({i \in 1..Len(EnvFileNames) :
                        Append(cr.worktreePath, EnvFileNames[i]) \in files})
    /\ result.packageManager = "null" => detectPackageManager(cr.worktreePath) = "null"

====
